---- MODULE Spec2Model ----
(***************************************************************************)
(* Dashboard Malaysia, client-side glue layer.                             *)
(*                                                                         *)
(*   RetrySpec / FairRetrySpec  apiClient.request (dashboard.js)           *)
(*   Spec                       the Dashboard core: tab coordinator,       *)
(*                              module dispatch, socket events, loadData   *)
(*   RegistrySpec               registerModule / getModule                 *)
(*   MapSpec                    the Leaflet overlay renderers              *)
(*                                                                         *)
(* The repository holds two versions of dashboard-core.js (1.0.0 and       *)
(* 1.1.0); the variable core says which one the page runs.                 *)
(***************************************************************************)
EXTENDS Integers, Sequences, FiniteSets, TLC

VARIABLES
    \* ---- apiClient.request (dashboard.js) ----
    dsRetryCount,   \* window.dashboardState.retryCount
    reqPc,          \* per call: "idle", "fetching", "waiting", "resolved", "rejected"
    reqRetryCount,  \* per call: the local let retryCount
    reqAttempts,    \* per call: number of fetch() calls issued so far
    reqWaits,       \* per call: the backoff delays waited so far, in ms
    reqLast,        \* per call: outcome of the most recent fetch attempt
    reqResult,      \* per call: what the promise settled with
    \* ---- Dashboard core (dashboard-core.js 1.0.0 / 1.1.0) ----
    core,           \* which version of the core the page runs
    absent,         \* tab containers missing from the document
    inited,         \* modules whose DOMContentLoaded init() has run
    modules,        \* Dashboard.modules: own properties of the lookup table
    currentTab,     \* Dashboard.state.currentTab
    isConnected,    \* Dashboard.state.isConnected
    dataLoaded,     \* Dashboard.state.dataLoaded
    lastUpdate,     \* Dashboard.state.lastUpdate
    map,            \* Dashboard.state.map
    loaded,         \* per tab container: dataset.loaded
    markup,         \* per tab container: who wrote its innerHTML last
    timers,         \* pending onTabChange('buildings') timeouts
    ldPc,           \* per loadData() call (1.0.0): the await it is suspended at
    loadBtn,        \* #load-data-btn: [content, disabled], and per call the content it saved
    \* ---- what the most recent handler did ----
    ev,             \* <<kind, argument>> of the event handled last
    calls,          \* methods invoked and effects issued by that handler
    threw,          \* whether that handler raised an exception
    \* ---- registry bookkeeping ----
    lastReg,        \* per name: handle of the most recent registerModule call
    lookup,         \* <<name, value>> of the most recent getModule call
    \* ---- Leaflet map overlays (dashboard-maps.js) ----
    mapLayers,      \* layers currently on Dashboard.state.map
    renderSeq,      \* number of render calls made so far
    lastAdded,      \* layers added by the most recent render call
    \* ---- data-fetching routines ----
    fetchState,     \* [view, ev, rejected]: what the widgets show, the routine settled last
    \* ---- fetch-parameter controls and buildings requests ----
    ctlState,       \* [density, typeFilter, consumptionSel, ev, issued, burst]
    flightState,    \* [reqSeq, inflight, arrivals, shownReq, lastUrl]
    \* ---- DashboardData settings import (dashboard-data.js) ----
    settingsState,  \* [controls, dataTheme, themeRadio, storedTheme, imports, lastImport, ...]
    \* ---- render / status routines and their mount points ----
    domOutcome,     \* routine -> how its last call found its mount point and ended
    \* ---- number formatting ----
    formatState,    \* [arg, out]
    \* ---- Dashboard.state.charts (written by DashboardCharts) ----
    chartState,     \* [charts, plotted, lastPlot]
    \* ---- chat transcript (#chat-messages, written by DashboardChat) ----
    chatState,      \* [thinking, appended]
    \* ---- toasts (Dashboard.showToast) ----
    toastState,     \* [now, ticks, container, dom, timers, made, lastFire]
    \* ---- 1.1.0 loadRealData() calls ----
    loadRuns,       \* per call: [pc, log]: the await it is suspended at, what it did so far
    \* ---- a debounced function (debounce(func, wait)) ----
    debounceState,  \* [impl, wait, now, timeout, timers, calls, invoked]
    \* ---- the server side, as far as the page's events tell ----
    channelUp,      \* whether the socket's last channel event was connect
    analyses,       \* per analysis: "idle", "running", "finished"
    \* ---- the globals of dashboard.js ----
    windowState     \* [isConnected, dataLoaded, currentTab, lastUpdate]: the other fields
                    \* of window.dashboardState; alerts: the .alert elements in the body

\* ---- the fields of fetchState ----
view == fetchState.view                 \* per widget: the payload it shows (0: nothing yet)
fetchEv == fetchState.ev                \* <<routine, status, body>> of the routine that settled last
fetchRejected == fetchState.rejected    \* whether that routine's promise rejected
\* ---- the fields of ctlState ----
density == ctlState.density             \* value of the #map-density slider
typeFilter == ctlState.typeFilter       \* value of the #map-type-filter dropdown
consumptionSel == ctlState.consumptionSel \* values of #time-range-select and #building-type-select
ctlEv == ctlState.ev                    \* <<control, event>> of the control event handled last
ctlIssued == ctlState.issued            \* number of requests that handler issued
burstRequests == ctlState.burst         \* requests issued so far by the current burst of slider events
\* ---- the fields of flightState ----
reqSeq == flightState.reqSeq            \* number of showBuildingsView requests issued so far
inflight == flightState.inflight        \* showBuildingsView requests whose response is pending
arrivals == flightState.arrivals        \* <<request, rendered>> of the responses handled, in arrival order
shownReq == flightState.shownReq        \* the request whose markers were rendered last (0: none)
lastUrl == flightState.lastUrl          \* URL of the request issued last
\* ---- the fields of settingsState ----
settingsControls == settingsState.controls \* setting key -> value / checked state of its control
dataTheme == settingsState.dataTheme    \* data-theme attribute of the document element
themeRadio == settingsState.themeRadio  \* value of the checked input[name="theme"]
imports == settingsState.imports        \* number of settings files read so far
lastImport == settingsState.lastImport  \* the file read last and the toasts its handler raised
\* ---- the fields of formatState ----
fmtArg == formatState.arg               \* the number formatted last (-1: none yet)
fmtOut == formatState.out               \* implementation -> the string it returned for fmtArg
\* ---- the fields of chartState ----
stateCharts == chartState.charts        \* the entries of Dashboard.state.charts: [id, data]
plotted == chartState.plotted           \* element id -> number of Plotly.newPlot calls completed for it
lastPlot == chartState.lastPlot         \* the renderPlotlyChart call made last and how it ended
\* ---- the fields of chatState ----
chatThinking == chatState.thinking      \* number of .message-thinking elements in the document
chatAppended == chatState.appended      \* the messages the analysis event handled last appended
\* ---- the fields of toastState ----
toastNow == toastState.now              \* Date.now(), in ms since the page was loaded
toastTicks == toastState.ticks          \* milliseconds that passed one at a time
toastContainer == toastState.container  \* whether .toast-container is in the document
toastDom == toastState.dom              \* the toast elements in the document: [n, at, id]
toastTimers == toastState.timers        \* pending removal timeouts: [call, target, due]
toastsMade == toastState.made           \* number of showToast calls made so far
toastLastFire == toastState.lastFire    \* what the timeout callback run last did

retryVars == <<dsRetryCount, reqPc, reqRetryCount, reqAttempts, reqWaits, reqLast, reqResult>>
pageVars == <<core, absent>>
stateVars == <<currentTab, isConnected, dataLoaded, lastUpdate, map>>
domVars == <<loaded, markup>>
procVars == <<timers, ldPc, loadBtn>>
histVars == <<ev, calls, threw>>
regVars == <<inited, modules, lastReg, lookup>>
mapVars == <<mapLayers, renderSeq, lastAdded>>

fetchVars == <<fetchState>>

coreVars == <<pageVars, stateVars, domVars, procVars, histVars, regVars, mapVars>>
ctlVars == <<ctlState>>
flightVars == <<flightState>>
settingsVars == <<settingsState>>
mountVars == <<domOutcome>>
formatVars == <<formatState>>
chartVars == <<chartState>>
toastVars == <<toastState>>
runVars == <<loadRuns>>
debounceVars == <<debounceState>>
utilVars == <<toastVars, runVars, debounceVars>>
panelVars == <<settingsVars, mountVars, formatVars, chartVars, utilVars>>
chatVars == <<chatState>>
auxVars == <<fetchVars, ctlVars, flightVars, panelVars, chatVars>>

\* what lies outside the Dashboard object: the server side and the globals
\* of dashboard.js
envVars == <<channelUp, analyses, windowState>>

vars == <<retryVars, coreVars, auxVars, envVars>>
nonRetryVars == <<coreVars, auxVars, envVars>>

----------------------------------------------------------------------------
(* Bounds and program constants *)

\* number of apiClient.request calls the page makes (they may overlap)
MaxRequests == 2

\* DASHBOARD_CONFIG.maxRetries
maxRetries == 3

ReqIds == 1..MaxRequests

\* pending 100 ms timeouts of onTabChange('buildings') at one time
MaxTimers == 1

\* Dashboard.loadData() calls (1.0.0) in flight at one time: the button
\* and Ctrl+R start loads over one another
MaxLoads == 2

LoadIds == 1..MaxLoads

\* the call Spec follows: there the loads come one after the other,
\* LoadSpec is where they overlap
SoleLoad == {1}

\* render calls made on the shared map
MaxRenderCalls == 3

\* markers / heat points in one response
MaxMarkers == 2

\* distinct payloads a data endpoint answers with
MaxPayload == 2

\* showBuildingsView requests issued in one session
MaxViewRequests == 2

\* number of settings files the user imports
MaxImports == 1

\* number of keys a settings file holds
MaxKeys == 1

\* number of changes the user makes to the settings controls
MaxEdits == 2

\* how far from each unit boundary the formatted numbers reach
MaxOffset == 3

\* number of times one chart is plotted
MaxPlots == 2

\* number of thinking messages the transcript holds at once
MaxThinking == 2

\* number of showToast calls made in one session
MaxToasts == 2

\* milliseconds that pass one at a time between two events
MaxTicks == 2

\* setTimeout(..., 5000) of showToast
ToastDelay == 5000

\* loadRealData() calls of the 1.1.0 core (init, the load button, Ctrl+R)
MaxRuns == 2

RunIds == 1..MaxRuns

\* analyses the server runs in one session (they may overlap)
MaxAnalyses == 2

\* the largest wait handed to debounce, in milliseconds
MaxWait == 2

\* calls of one debounced function
MaxCalls == 3

\* milliseconds the clock of the debounced function runs
MaxClock == 4

\* in-app alerts of dashboard.js in the document at once
MaxAlerts == 1

AnalysisIds == 1..MaxAnalyses

----------------------------------------------------------------------------
(* apiClient.request *)

RECURSIVE Pow2(_)
Pow2(n) == IF n <= 0 THEN 1 ELSE 2 * Pow2(n - 1)

\* outcome of one pass through the try block: fetch() may reject, the status
\* may be non-OK, response.json() may reject; otherwise the body is parsed
Outcomes == {"ok", "network_error", "http_error", "bad_json"}

\* while (retryCount <= maxRetries)
LoopContinues(retryCount) == retryCount <= maxRetries

\* mutant: gives up one attempt early
RetriesExhausted_Early(retryCount) == retryCount >= maxRetries

\* if (retryCount > maxRetries) throw
RetriesExhausted(retryCount) == retryCount > maxRetries

\* mutant: the delay is computed from the count before its increment
BackoffDelay_PreIncrement(retryCount) == Pow2(retryCount - 1) * 1000

\* const delay = Math.pow(2, retryCount) * 1000
BackoffDelay(retryCount) == Pow2(retryCount) * 1000

\* mutant: a success leaves the shared counter at the failures counted so far
RetryCountOnSuccess_Kept(retryCount) == retryCount

\* mutant: a success leaves the shared counter as it finds it
RetryCountOnSuccess_Untouched(retryCount) == dsRetryCount

\* window.dashboardState.retryCount = 0 on success
RetryCountOnSuccess(retryCount) == 0

RetryInit ==
    /\ dsRetryCount = 0
    /\ reqPc = [r \in ReqIds |-> "idle"]
    /\ reqRetryCount = [r \in ReqIds |-> 0]
    /\ reqAttempts = [r \in ReqIds |-> 0]
    /\ reqWaits = [r \in ReqIds |-> <<>>]
    /\ reqLast = [r \in ReqIds |-> "none"]
    /\ reqResult = [r \in ReqIds |-> "pending"]

\* apiClient.request(url, options) is called: retryCount = 0, the loop is
\* entered and the first fetch is issued
Request(r) ==
    /\ reqPc[r] = "idle"
    /\ LoopContinues(0)
    /\ reqPc' = [reqPc EXCEPT ![r] = "fetching"]
    /\ reqRetryCount' = [reqRetryCount EXCEPT ![r] = 0]
    /\ reqAttempts' = [reqAttempts EXCEPT ![r] = 1]
    /\ UNCHANGED <<dsRetryCount, reqWaits, reqLast, reqResult>>
    /\ UNCHANGED nonRetryVars

\* the awaited fetch / response.json() of call r settles with outcome o
FetchComplete(r, o) ==
    /\ reqPc[r] = "fetching"
    /\ reqLast' = [reqLast EXCEPT ![r] = o]
    /\ IF o = "ok"
       THEN /\ dsRetryCount' = RetryCountOnSuccess(reqRetryCount[r])
            /\ reqPc' = [reqPc EXCEPT ![r] = "resolved"]
            /\ reqResult' = [reqResult EXCEPT ![r] = "data"]
            /\ UNCHANGED <<reqRetryCount, reqWaits>>
       ELSE LET rc == reqRetryCount[r] + 1 IN
            /\ reqRetryCount' = [reqRetryCount EXCEPT ![r] = rc]
            /\ dsRetryCount' = rc
            /\ IF RetriesExhausted(rc)
               THEN /\ reqPc' = [reqPc EXCEPT ![r] = "rejected"]
                    /\ reqResult' = [reqResult EXCEPT ![r] = "error"]
                    /\ UNCHANGED reqWaits
               ELSE /\ reqPc' = [reqPc EXCEPT ![r] = "waiting"]
                    /\ reqWaits' = [reqWaits EXCEPT ![r] = Append(@, BackoffDelay(rc))]
                    /\ UNCHANGED reqResult
    /\ UNCHANGED reqAttempts
    /\ UNCHANGED nonRetryVars

\* the backoff timer of call r fires; the loop condition is tested again
BackoffElapsed(r) ==
    /\ reqPc[r] = "waiting"
    /\ IF LoopContinues(reqRetryCount[r])
       THEN /\ reqPc' = [reqPc EXCEPT ![r] = "fetching"]
            /\ reqAttempts' = [reqAttempts EXCEPT ![r] = @ + 1]
            /\ UNCHANGED reqResult
       ELSE \* the loop ends and the async function returns undefined
            /\ reqPc' = [reqPc EXCEPT ![r] = "resolved"]
            /\ reqResult' = [reqResult EXCEPT ![r] = "undefined"]
            /\ UNCHANGED reqAttempts
    /\ UNCHANGED <<dsRetryCount, reqRetryCount, reqWaits, reqLast>>
    /\ UNCHANGED nonRetryVars

RetryNext ==
    \/ \E r \in ReqIds : Request(r)
    \/ \E r \in ReqIds, o \in Outcomes : FetchComplete(r, o)
    \/ \E r \in ReqIds : BackoffElapsed(r)

----------------------------------------------------------------------------
(* dashboard.js: the connectivity listeners and their in-app alert *)

\* window 'online' / 'offline' listeners: notificationManager.show(...) ends
\* in errorHandler.show, which appends an alert to the body; then
\* window.dashboardState.isConnected = true / false
WindowConnectivity(online) ==
    /\ windowState.alerts < MaxAlerts
    /\ windowState' = [windowState EXCEPT !.isConnected = online, !.alerts = @ + 1]
    /\ UNCHANGED <<retryVars, channelUp, analyses, coreVars, auxVars>>

\* the 5 s timeout of errorHandler.show: if (alert.parentNode) alert.remove()
AlertExpires ==
    /\ windowState.alerts > 0
    /\ windowState' = [windowState EXCEPT !.alerts = @ - 1]
    /\ UNCHANGED <<retryVars, channelUp, analyses, coreVars, auxVars>>

----------------------------------------------------------------------------
(* Dashboard core: shared state, module registry *)

\* the closed set of tab ids: the href / data-bs-target of the sidebar pills
TabIds == {"overview", "consumption", "buildings", "analysis", "data", "settings"}

\* the keys Dashboard.modules is created with
ModuleNames == {"charts", "maps", "chat", "data", "ui"}

\* names tried against the registry: the five module names, a name nobody
\* registers at page load, and a name every object inherits
RegNames == ModuleNames \cup {"extra", "toString"}

\* property names Dashboard.modules inherits from Object.prototype
InheritedNames == {"toString"}

Null == "null"
Undefined == "undefined"

\* the object each module script passes to registerModule(name, this)
ModuleObject(name) ==
    CASE name = "charts" -> "DashboardCharts"
      [] name = "maps" -> "DashboardMaps"
      [] name = "chat" -> "DashboardChat"
      [] name = "data" -> "DashboardData"
      [] name = "ui" -> "DashboardUI"

\* handles passed to registerModule by callers other than the modules' init()
Handles == {"DashboardData", "DashboardUI"}

\* names used in direct registerModule / getModule calls: two keys the table
\* is created with, a fresh name and an inherited one
ApiNames == {"data", "ui", "extra", "toString"}

\* JavaScript truthiness of a registry value (handles are objects)
Truthy(v) == v \notin {Null, Undefined}

\* registerModule(name, module): this.modules[name] = module
registerModule(mods, name, module) == [mods EXCEPT ![name] = module]

\* getModule(name): return this.modules[name], a property lookup that falls
\* back to the prototype chain when the table has no own property of that name
getModule(mods, name) ==
    IF mods[name] # Undefined THEN mods[name]
    ELSE IF name \in InheritedNames THEN "Object.prototype." \o name
    ELSE Undefined

\* mutant: the dispatch is made without looking at the registry
ModuleReady_Unchecked(name) == TRUE

\* if (this.modules.<name>) ... guarding every dispatch of the 1.0.0 core
ModuleReady(name) == Truthy(modules[name])

\* the methods a dispatch invokes and, for the modules' own objects, the
\* request the method issues before its first await
Invoke(name, method) ==
    IF Truthy(modules[name])
    THEN {<<name, method>>} \cup
         (IF method \in {"updateConsumptionCharts", "checkOllamaStatus", "loadCharts"}
          THEN {<<"net", "fetch">>} ELSE {})
    ELSE {}

\* calling a method of null / undefined raises a TypeError
InvokeThrows(name) == ~Truthy(modules[name])

CoreInit ==
    /\ core \in {"v1.0", "v1.1"}
    /\ absent \in {{}, {"buildings"}}
    /\ inited = {}
    /\ modules = [n \in RegNames |-> IF n \in ModuleNames THEN Null ELSE Undefined]
    /\ currentTab = "overview"
    /\ isConnected = FALSE
    /\ dataLoaded = FALSE
    /\ lastUpdate = Null
    /\ map = Null
    /\ loaded = [t \in TabIds |-> FALSE]
       \* 1.1.0 init() starts with loadInitialContent(), which fills #overview
    /\ markup = [t \in TabIds |-> IF t = "overview" /\ core = "v1.1" THEN "static" ELSE "none"]
    /\ timers = 0
    /\ ldPc = [c \in LoadIds |-> "idle"]
    /\ loadBtn = [content |-> "original", disabled |-> FALSE,
                  saved |-> [c \in LoadIds |-> "none"]]
    /\ ev = <<"load", "">>
    /\ calls = {}
    /\ threw = FALSE
    /\ lastReg = [n \in RegNames |-> "none"]
    /\ lookup = <<"", Undefined>>

----------------------------------------------------------------------------
(* Module scripts: DOMContentLoaded -> <Module>.init() *)

\* the tab containers a module's init() fills, ignoring the loaded flag
ModuleTabs(m) ==
    CASE m = "charts" -> {"overview", "consumption"}
      [] m = "maps" -> {"buildings"}
      [] m = "chat" -> {"analysis"}
      [] m = "data" -> {"data", "settings"}
      [] m = "ui" -> {}

\* load<Tab>Content() of a module: if (!el) return; el.innerHTML = ...
ModuleMarkup(m) ==
    [t \in TabIds |-> IF t \in ModuleTabs(m) /\ t \notin absent THEN "module" ELSE markup[t]]

\* DashboardMaps.initializeMap: L.map('buildings-map') needs the container
\* that loadBuildingsContent has just written; a failure is caught and logged
MapAfterInit == IF "buildings" \notin absent THEN "map" ELSE map

\* <Module>.init(): render the module's tabs, then Dashboard.registerModule
ModuleInit(m) ==
    /\ m \notin inited
    /\ inited' = inited \cup {m}
    /\ markup' = ModuleMarkup(m)
    /\ map' = IF m = "maps" THEN MapAfterInit ELSE map
    /\ mapLayers' = IF m = "maps" /\ "buildings" \notin absent
                    THEN mapLayers \cup {[kind |-> "tile", call |-> 0, idx |-> 0]}
                    ELSE mapLayers
    /\ modules' = registerModule(modules, m, ModuleObject(m))
    /\ lastReg' = [lastReg EXCEPT ![m] = ModuleObject(m)]
    /\ ev' = <<"init", m>>
    /\ calls' = IF m = "chat" THEN {<<"net", "fetch">>} ELSE {}
    /\ threw' = FALSE
    /\ UNCHANGED <<retryVars, envVars, auxVars, pageVars, currentTab, isConnected, dataLoaded, lastUpdate>>
    /\ UNCHANGED <<loaded, procVars, lookup, renderSeq, lastAdded>>

InitCharts == ModuleInit("charts")
InitMaps == ModuleInit("maps")
InitChat == ModuleInit("chat")
InitData == ModuleInit("data")
InitUI == ModuleInit("ui")


----------------------------------------------------------------------------
(* Tab lifecycle coordinator *)

\* mutant: the handler forgets to store the activated tab
NewCurrentTab_Kept(t) == currentTab

\* this.state.currentTab = targetTab (1.0.0) / targetId (1.1.0)
NewCurrentTab(t) == t

\* a guarded dispatch: if (this.modules.x) this.modules.x.method()
DispatchCalls(name, method) == IF ModuleReady(name) THEN Invoke(name, method) ELSE {}
DispatchThrows(name) == ModuleReady(name) /\ InvokeThrows(name)

\* 1.0.0 onTabChange(tabId): the switch over buildings / consumption / analysis
OnTabChange(t) ==
    /\ IF t = "buildings" /\ ModuleReady("maps") /\ map # Null
       THEN /\ timers < MaxTimers
            /\ timers' = timers + 1
            /\ calls' = {<<"window", "setTimeout">>}
            /\ threw' = FALSE
       ELSE /\ timers' = timers
            /\ calls' = (CASE t = "consumption" -> DispatchCalls("charts", "updateConsumptionCharts")
                           [] t = "analysis" -> DispatchCalls("chat", "checkOllamaStatus")
                           [] OTHER -> {})
            /\ threw' = (CASE t = "consumption" -> DispatchThrows("charts")
                           [] t = "analysis" -> DispatchThrows("chat")
                           [] OTHER -> FALSE)
    /\ UNCHANGED <<loaded, markup>>

\* mutant: neither the container nor its flag is looked at
ContentLoadSkipped_Never(t) == FALSE

\* mutant: the loaded flag is not consulted
ContentLoadSkipped_NoFlag(t) == t \in absent

\* 1.1.0 load<Tab>Content(): if (!el || el.dataset.loaded) return
ContentLoadSkipped(t) == t \in absent \/ loaded[t]

\* 1.1.0 loadTabContent(tabId): overview is already loaded; every other tab
\* gets its static markup once and then carries dataset.loaded = 'true'
LoadTabContent(t) ==
    /\ IF t = "overview" \/ ContentLoadSkipped(t)
       THEN /\ UNCHANGED <<loaded, markup>>
            /\ calls' = {}
       ELSE /\ markup' = [markup EXCEPT ![t] = "static"]
            /\ loaded' = [loaded EXCEPT ![t] = TRUE]
            /\ calls' = {<<"dom", "render">>}
    /\ threw' = FALSE
    /\ UNCHANGED timers

\* shown.bs.tab on a sidebar pill
ShownTab(t) ==
    /\ currentTab' = NewCurrentTab(t)
    /\ ev' = <<"tab", t>>
    /\ IF core = "v1.0" THEN OnTabChange(t) ELSE LoadTabContent(t)
    /\ UNCHANGED <<retryVars, envVars, auxVars, pageVars, isConnected, dataLoaded, lastUpdate, map>>
    /\ UNCHANGED <<ldPc, loadBtn, regVars, mapVars>>

\* 1.0.0: the 100 ms timeout set by onTabChange('buildings') fires
BuildingsTimerFires ==
    /\ core = "v1.0"
    /\ timers > 0
    /\ timers' = timers - 1
    /\ ev' = <<"timer", "buildings">>
    /\ calls' = {<<"Leaflet", "invalidateSize">>} \cup
                (IF dataLoaded THEN Invoke("maps", "loadMapData") ELSE {})
    /\ threw' = (dataLoaded /\ InvokeThrows("maps"))
    /\ UNCHANGED <<retryVars, envVars, auxVars, pageVars, stateVars, domVars, ldPc, loadBtn, regVars, mapVars>>

\* 1.0.0: click on a [data-period] button of the overview markup
PeriodClick ==
    /\ core = "v1.0"
    /\ markup["overview"] = "module"
    /\ ev' = <<"period", "">>
    /\ calls' = DispatchCalls("charts", "updateConsumptionCharts")
    /\ threw' = DispatchThrows("charts")
    /\ UNCHANGED <<retryVars, envVars, auxVars, pageVars, stateVars, domVars, procVars, regVars, mapVars>>

----------------------------------------------------------------------------
(* Realtime channel *)

SocketConnect ==
    /\ isConnected' = TRUE
    /\ channelUp' = TRUE
    /\ ev' = <<"connect", "">>
    /\ calls' = {}
    /\ threw' = FALSE
    /\ UNCHANGED <<retryVars, analyses, windowState, auxVars, pageVars, currentTab, dataLoaded, lastUpdate, map>>
    /\ UNCHANGED <<domVars, procVars, regVars, mapVars>>

SocketDisconnect ==
    /\ isConnected' = FALSE
    /\ channelUp' = FALSE
    /\ ev' = <<"disconnect", "">>
    /\ calls' = {}
    /\ threw' = FALSE
    /\ UNCHANGED <<retryVars, analyses, windowState, auxVars, pageVars, currentTab, dataLoaded, lastUpdate, map>>
    /\ UNCHANGED <<domVars, procVars, regVars, mapVars>>

\* the chat methods each analysis event calls, in order
AnalysisMethods(kind) ==
    IF kind = "analysis_started" THEN {"addMessage"}
    ELSE {"removeThinkingMessages", "addMessage"}

\* document.getElementById('chat-messages') finds the transcript
ChatMessagesPresent == markup["analysis"] = "module"

\* addMessage('thinking', 'Analyse en cours avec l\'IA...', true)
ThinkingMessage ==
    [type |-> "thinking", thinking |-> TRUE, content |-> "Analyse en cours avec l'IA..."]

\* addMessage('assistant', response) / addMessage('assistant', `... ${data.error}`)
AssistantMessage(kind) ==
    [type |-> "assistant", thinking |-> FALSE,
     content |-> IF kind = "analysis_error"
                 THEN "Erreur d'analyse: data.error"
                 ELSE "data.analysis"]

\* the message the handler of the event adds
MessageOf(kind) == IF kind = "analysis_started" THEN ThinkingMessage ELSE AssistantMessage(kind)

\* mutant: the thinking messages stay in the transcript
ThinkingAfterRemoval_Kept(kind) == chatThinking

\* removeThinkingMessages(): every .message-thinking element is removed
ThinkingAfterRemoval(kind) == IF kind = "analysis_started" THEN chatThinking ELSE 0

\* the handler's calls into the chat module, as they change the transcript
ChatEffect(kind) ==
    IF ModuleReady("chat") /\ ~InvokeThrows("chat") /\ ChatMessagesPresent
    THEN chatState' = [thinking |-> ThinkingAfterRemoval(kind)
                                       + (IF MessageOf(kind).thinking THEN 1 ELSE 0),
                       appended |-> <<MessageOf(kind)>>]
    ELSE UNCHANGED chatVars

\* 1.0.0: analysis_started / analysis_complete / analysis_error
AnalysisEvent(kind) ==
    /\ core = "v1.0"
    /\ (kind = "analysis_started" /\ ModuleReady("chat")) => chatThinking < MaxThinking
    /\ ev' = <<kind, "">>
    /\ calls' = UNION {DispatchCalls("chat", m) : m \in AnalysisMethods(kind)}
       \* addMessage appends to the element it looked up without a test
    /\ threw' = (DispatchThrows("chat") \/ (ModuleReady("chat") /\ ~ChatMessagesPresent))
    /\ ChatEffect(kind)
    /\ UNCHANGED <<retryVars, channelUp, windowState, fetchVars, ctlVars, flightVars, panelVars>>
    /\ UNCHANGED <<pageVars, stateVars, domVars, procVars, regVars, mapVars>>

\* an event the page receives, whichever analysis raised it
AnalysisStarted == AnalysisEvent("analysis_started") /\ UNCHANGED analyses
AnalysisComplete == AnalysisEvent("analysis_complete") /\ UNCHANGED analyses
AnalysisError == AnalysisEvent("analysis_error") /\ UNCHANGED analyses

\* the state of an analysis on the server once it has raised the event
AnalysisAfter(kind) == IF kind = "analysis_started" THEN "running" ELSE "done"

\* analysis a raises an event on the socket: analysis_started when it begins,
\* analysis_complete or analysis_error when it ends. The 1.0.0 core handles
\* the event; the 1.1.0 core registers no listener for it.
AnalysisRaises(a, kind) ==
    /\ analyses[a] = (IF kind = "analysis_started" THEN "idle" ELSE "running")
    /\ analyses' = [analyses EXCEPT ![a] = AnalysisAfter(kind)]
    /\ IF core = "v1.0"
       THEN AnalysisEvent(kind)
       ELSE /\ UNCHANGED <<retryVars, channelUp, windowState, coreVars, auxVars>>

\* the handlers of the browser's online / offline events (1.0.0 core; the
\* listeners of dashboard.js write window.dashboardState, another object):
\* notifications.show(), this.state.isConnected = true / false, and for
\* online checkOllamaStatus()
BrowserConnectivity(online) ==
    /\ core = "v1.0"
    /\ isConnected' = online
    /\ ev' = <<IF online THEN "online" ELSE "offline", "">>
    /\ calls' = {<<"Dashboard", "showToast">>} \cup (IF online THEN {<<"net", "fetch">>} ELSE {})
    /\ threw' = FALSE
    /\ UNCHANGED <<retryVars, envVars, auxVars, pageVars, currentTab, dataLoaded, lastUpdate, map>>
    /\ UNCHANGED <<domVars, procVars, regVars, mapVars>>

\* document.getElementById('chat-input') / ('chat-messages') find their
\* elements: both are part of the module's markup of #analysis and of the
\* static markup the 1.1.0 core loads into it
ChatInputPresent == markup["analysis"] \in {"module", "static"}

\* addMessage('user', question)
UserMessage == [type |-> "user", thinking |-> FALSE, content |-> "question"]

\* addMessage('assistant', 'Connexion WebSocket non disponible. ...')
UnavailableMessage ==
    [type |-> "assistant", thinking |-> FALSE, content |-> "Connexion WebSocket non disponible"]

\* if (Dashboard.state.isConnected && Dashboard.state.socket): the socket
\* object is there from initializeSocket() on
EmitsRequest == isConnected

\* DashboardChat.sendMessage(); blank: the input holds nothing but spaces
SendMessage(blank) ==
    /\ "chat" \in inited
    /\ ev' = <<"sendMessage", IF blank THEN "blank" ELSE "question">>
    /\ threw' = ~ChatInputPresent
    /\ IF ~ChatInputPresent \/ blank
       THEN /\ calls' = {}
            /\ chatState' = [chatState EXCEPT !.appended = <<>>]
       ELSE /\ calls' = IF EmitsRequest THEN {<<"socket", "request_analysis">>} ELSE {}
            /\ chatState' = [chatState EXCEPT
                                !.appended = IF EmitsRequest
                                             THEN <<UserMessage>>
                                             ELSE <<UserMessage, UnavailableMessage>>]
    /\ UNCHANGED <<retryVars, envVars, fetchVars, ctlVars, flightVars, panelVars>>
    /\ UNCHANGED <<pageVars, stateVars, domVars, procVars, regVars, mapVars>>

----------------------------------------------------------------------------
(* 1.0.0 loadData() *)

\* const originalContent = button.innerHTML; button.innerHTML = <spinner>;
\* button.disabled = true
ButtonAtStart(c) ==
    [content |-> "spinner", disabled |-> TRUE,
     saved |-> [loadBtn.saved EXCEPT ![c] = loadBtn.content]]

\* finally: button.innerHTML = originalContent; button.disabled = false
ButtonAtFinally(c) ==
    [content |-> loadBtn.saved[c], disabled |-> FALSE,
     saved |-> [loadBtn.saved EXCEPT ![c] = "none"]]

\* the button once call c has gone on to pc: the finally block runs when
\* the call ends
ButtonAfter(c, pc) == IF pc = "idle" THEN ButtonAtFinally(c) ELSE loadBtn

\* the button is switched to its spinner and POST /api/data/load is issued
\* (a click on the enabled button, or Ctrl+R at any time)
LoadDataStart(c) ==
    /\ core = "v1.0"
    /\ ldPc[c] = "idle"
    /\ ldPc' = [ldPc EXCEPT ![c] = "load"]
    /\ loadBtn' = ButtonAtStart(c)
    /\ ev' = <<"loadData", "start">>
    /\ calls' = {<<"net", "fetch">>}
    /\ threw' = FALSE
    /\ UNCHANGED <<retryVars, envVars, auxVars, pageVars, stateVars, domVars, timers, regVars, mapVars>>

\* where the call goes on from the maps dispatch
AfterChartsStep == IF ModuleReady("maps") THEN "maps" ELSE "idle"

\* where the call goes on from the charts dispatch
AfterSummaryStep == IF ModuleReady("charts") THEN "charts" ELSE AfterChartsStep

\* the load request settles: success sets dataLoaded and goes on to the
\* summary; success = false or a rejected fetch ends in catch and finally
LoadDataResponse(c, success) ==
    /\ ldPc[c] = "load"
    /\ ev' = <<"loadData", "response">>
    /\ threw' = FALSE
    /\ IF success
       THEN /\ dataLoaded' = TRUE
            /\ lastUpdate' = "date"
            /\ ldPc' = [ldPc EXCEPT ![c] = "summary"]
            /\ UNCHANGED loadBtn
            /\ calls' = {<<"net", "fetch">>}
       ELSE /\ UNCHANGED <<dataLoaded, lastUpdate>>
            /\ ldPc' = [ldPc EXCEPT ![c] = "idle"]
            /\ loadBtn' = ButtonAtFinally(c)
            /\ calls' = {}
    /\ UNCHANGED <<retryVars, envVars, auxVars, pageVars, currentTab, isConnected, map>>
    /\ UNCHANGED <<domVars, timers, regVars, mapVars>>

\* loadDataSummary() has settled (its own errors are caught inside it):
\* if (this.modules.charts) await charts.loadCharts(); then the same for maps
LoadDataSummaryDone(c) ==
    /\ ldPc[c] = "summary"
    /\ ev' = <<"loadData", "summary">>
    /\ calls' = DispatchCalls("charts", "loadCharts") \cup
                (IF ModuleReady("charts") THEN {} ELSE DispatchCalls("maps", "loadMapData"))
    /\ threw' = (DispatchThrows("charts") \/ (~ModuleReady("charts") /\ DispatchThrows("maps")))
    /\ ldPc' = [ldPc EXCEPT ![c] = IF threw' THEN "idle" ELSE AfterSummaryStep]
    /\ loadBtn' = ButtonAfter(c, ldPc'[c])
    /\ UNCHANGED <<retryVars, envVars, auxVars, pageVars, stateVars, domVars, timers, regVars, mapVars>>

\* charts.loadCharts() has settled: if (this.modules.maps) await maps.loadMapData()
LoadDataChartsDone(c) ==
    /\ ldPc[c] = "charts"
    /\ ev' = <<"loadData", "charts">>
    /\ calls' = DispatchCalls("maps", "loadMapData")
    /\ threw' = DispatchThrows("maps")
    /\ ldPc' = [ldPc EXCEPT ![c] = IF threw' THEN "idle" ELSE AfterChartsStep]
    /\ loadBtn' = ButtonAfter(c, ldPc'[c])
    /\ UNCHANGED <<retryVars, envVars, auxVars, pageVars, stateVars, domVars, timers, regVars, mapVars>>

\* maps.loadMapData() has settled: finally restores the button
LoadDataMapsDone(c) ==
    /\ ldPc[c] = "maps"
    /\ ev' = <<"loadData", "maps">>
    /\ calls' = {}
    /\ threw' = FALSE
    /\ ldPc' = [ldPc EXCEPT ![c] = "idle"]
    /\ loadBtn' = ButtonAtFinally(c)
    /\ UNCHANGED <<retryVars, envVars, auxVars, pageVars, stateVars, domVars, timers, regVars, mapVars>>

----------------------------------------------------------------------------
(* Registry API called directly *)

\* Dashboard.registerModule(name, handle): a duplicate overwrites, no error
RegisterModule(name, handle) ==
    /\ modules' = registerModule(modules, name, handle)
    /\ lastReg' = [lastReg EXCEPT ![name] = handle]
    /\ ev' = <<"registerModule", name>>
    /\ calls' = {}
    /\ threw' = FALSE
    /\ UNCHANGED <<retryVars, envVars, auxVars, pageVars, stateVars, domVars, procVars, inited, lookup, mapVars>>

\* Dashboard.getModule(name)
GetModule(name) ==
    /\ lookup' = <<name, getModule(modules, name)>>
    /\ ev' = <<"getModule", name>>
    /\ calls' = {}
    /\ threw' = FALSE
    /\ UNCHANGED <<retryVars, envVars, auxVars, pageVars, stateVars, domVars, procVars, inited, modules, lastReg, mapVars>>

----------------------------------------------------------------------------
(* Map overlay renderers (dashboard-maps.js) *)

\* length of a response's markers / heatmap_points list, when it has one
PointCounts == 0..MaxMarkers

Overlays(layers) == {l \in layers : l.kind \in {"circle", "heat"}}

\* mutant: nothing is cleared before the new markers are added
BuildingsClears_None(layer) == FALSE

\* renderBuildingsOnMap: if (layer instanceof L.CircleMarker) removeLayer
BuildingsClears(layer) == layer.kind = "circle"

\* renderConsumptionHeatmap: CircleMarker or HeatLayer
HeatmapClears(layer) == layer.kind \in {"circle", "heat"}

\* renderBuildingsOnMap(mapData); hasList: mapData.markers is there
RenderBuildingsOnMap(hasList, markers) ==
    /\ ev' = <<"render", "buildings">>
    /\ calls' = {}
    /\ threw' = FALSE
    /\ IF map = Null \/ ~hasList
       THEN UNCHANGED mapVars
       ELSE /\ renderSeq < MaxRenderCalls
            /\ renderSeq' = renderSeq + 1
            /\ lastAdded' = {[kind |-> "circle", call |-> renderSeq', idx |-> i] : i \in 1..markers}
            /\ mapLayers' = {l \in mapLayers : ~BuildingsClears(l)} \cup lastAdded'
    /\ UNCHANGED <<retryVars, envVars, auxVars, pageVars, stateVars, domVars, procVars, regVars>>

\* renderConsumptionHeatmap(heatmapData): one heat layer for a non-empty
\* list; hasList: heatmapData.heatmap_points is there
RenderConsumptionHeatmap(hasList, points) ==
    /\ ev' = <<"render", "heatmap">>
    /\ calls' = {}
    /\ threw' = FALSE
    /\ IF map = Null \/ ~hasList
       THEN UNCHANGED mapVars
       ELSE /\ renderSeq < MaxRenderCalls
            /\ renderSeq' = renderSeq + 1
            /\ lastAdded' = IF points > 0
                            THEN {[kind |-> "heat", call |-> renderSeq', idx |-> 0]}
                            ELSE {}
            /\ mapLayers' = {l \in mapLayers : ~HeatmapClears(l)} \cup lastAdded'
    /\ UNCHANGED <<retryVars, envVars, auxVars, pageVars, stateVars, domVars, procVars, regVars>>

----------------------------------------------------------------------------
(* Data-fetching routines: fetch, parse, test the envelope, render *)

\* what a widget shows: nothing yet, the payload of a response, or the demo
\* values written by loadFallbackData / createFallbackCharts
NoContent == 0
Fallback == 0 - 1
Payloads == 1..MaxPayload

Widgets == {"markers", "heatmap", "consumptionCharts", "overviewCharts", "metrics"}

\* the routines that test neither response.ok nor anything but result.success
ModuleRoutines == {"showBuildingsView", "showHeatmapView", "updateConsumptionCharts", "loadCharts"}
FetchRoutines == ModuleRoutines \cup {"loadDataSummary"}

\* the widget a routine renders into
WidgetOf(routine) ==
    CASE routine = "showBuildingsView" -> "markers"
      [] routine = "showHeatmapView" -> "heatmap"
      [] routine = "updateConsumptionCharts" -> "consumptionCharts"
      [] routine = "loadCharts" -> "overviewCharts"
      [] routine = "loadDataSummary" -> "metrics"

\* a settled fetch: the promise rejected, or a response arrived whose body is
\* unparsable, an envelope with success = false, or one with success = true;
\* a response with an error status carries no success envelope
Responses ==
    {[status |-> "rejected", body |-> "none", payload |-> NoContent]}
    \cup {[status |-> "http_error", body |-> b, payload |-> NoContent] : b \in {"unparsable", "failure"}}
    \cup {[status |-> "ok", body |-> b, payload |-> NoContent] : b \in {"unparsable", "failure"}}
    \cup {[status |-> "ok", body |-> "success", payload |-> p] : p \in Payloads}

\* await fetch(); await response.json(); if (result.success) render
RendersUnchecked(resp) == resp.status # "rejected" /\ resp.body = "success"

\* if (response.ok) { await response.json(); if (result.success && ...) render }
RendersChecked(resp) == resp.status = "ok" /\ resp.body = "success"

\* whether routine renders the response: loadDataSummary of the 1.1.0 core
\* tests response.ok, every other routine goes straight to response.json()
Renders(routine, resp) ==
    IF routine = "loadDataSummary" /\ core = "v1.1"
    THEN RendersChecked(resp)
    ELSE RendersUnchecked(resp)

\* the content of a widget after its routine handled resp
ViewAfter(routine, resp) ==
    [view EXCEPT ![WidgetOf(routine)] = IF Renders(routine, resp) THEN resp.payload ELSE @]

\* the catch block of loadRealData: loadFallbackData() overwrites the metric
\* values and draws the demo charts
ViewAfterLoadFailure == [view EXCEPT !["metrics"] = Fallback, !["overviewCharts"] = Fallback]

\* loadRealCharts: every failure path ends in createFallbackCharts()
ChartsAfterRealCharts(resp) == IF RendersChecked(resp) THEN resp.payload ELSE Fallback

\* if (!loadResponse.ok) throw; await json(); if (!loadResult.success) throw
LoadThrows(resp) == ~(resp.status = "ok" /\ resp.body = "success")

FetchInit ==
    fetchState = [view |-> [w \in Widgets |-> NoContent],
                  ev |-> <<"none", "none", "none">>,
                  rejected |-> FALSE]

\* one of the try / catch routines runs and its fetch settles with resp
FetchRoutineSettles(routine, resp) ==
    /\ fetchState' = [view |-> ViewAfter(routine, resp),
                       ev |-> <<routine, resp.status, resp.body>>,
                       rejected |-> FALSE]
    /\ UNCHANGED <<retryVars, envVars, coreVars, ctlVars, flightVars, panelVars, chatVars>>

\* 1.1.0 loadRealData(): POST /api/data/load settles with load; on success
\* loadDataSummary() and loadRealCharts() follow and settle with summary and
\* charts, on failure the catch block runs
LoadRealDataSettles(load) ==
    /\ core = "v1.1"
    \* drawn: the charts step drew what it was given (what its unguarded
    \* createFallbackCharts() throws reaches the catch block as well)
    /\ \E drawn \in BOOLEAN :
          /\ \E shown \in IF LoadThrows(load) \/ ~drawn
                           THEN {ViewAfterLoadFailure}
                           ELSE {[view EXCEPT
                                    !["metrics"] = IF RendersChecked(summary)
                                                   THEN summary.payload ELSE @,
                                    !["overviewCharts"] = ChartsAfterRealCharts(charts)] :
                                 summary \in Responses, charts \in Responses} :
                fetchState' = [view |-> shown,
                               ev |-> <<"loadRealData", load.status, load.body>>,
                               rejected |-> FALSE]
          /\ dataLoaded' = IF LoadThrows(load) \/ ~drawn THEN dataLoaded ELSE TRUE
    /\ UNCHANGED <<retryVars, envVars, pageVars, currentTab, isConnected, lastUpdate, map>>
    /\ UNCHANGED <<domVars, procVars, histVars, regVars, mapVars, ctlVars, flightVars, panelVars, chatVars>>

----------------------------------------------------------------------------
(* Fetch-parameter controls (dashboard-maps.js, dashboard-data.js) *)

\* values of the range input (min 10, max 100, step 10) used here
DensityValues == {"10", "50", "100"}

\* option values of #map-type-filter used here
TypeValues == {"all", "residential", "commercial"}

\* the two dropdowns of the consumption tab and option values of each
ConsumptionControls == {"time-range-select", "building-type-select"}
ConsumptionValues(c) == IF c = "time-range-select" THEN {"7d", "30d"} ELSE {"all", "residential"}

\* the map controls are part of the markup loadBuildingsContent writes
MapControlsPresent == markup["buildings"] = "module"

\* the consumption dropdowns are part of DashboardCharts.loadConsumptionContent
ConsumptionControlsPresent == markup["consumption"] = "module"

\* mutant: the slider is never read
DensityParam_Default == "100"

\* document.getElementById('map-density')?.value || 100
DensityParam == IF MapControlsPresent /\ density # "" THEN density ELSE "100"

\* document.getElementById('map-type-filter')?.value || 'all'
TypeParam == IF MapControlsPresent /\ typeFilter # "" THEN typeFilter ELSE "all"

\* the template literal of showBuildingsView
BuildingsUrl(d, t) == "/api/map/buildings?density=" \o d \o "&type=" \o t

\* the template literal of updateConsumptionCharts
ConsumptionUrl(range, type) == "/api/charts/consumption?range=" \o range \o "&type=" \o type

\* requests a slider event handler issues: the inline onchange handler calls
\* updateMapDensity -> showBuildingsView; the input listener only updates
\* #density-display
SliderRequests(event) == IF event = "change" THEN 1 ELSE 0

ControlInit ==
    ctlState = [density |-> "100",
                typeFilter |-> "all",
                consumptionSel |-> [c \in ConsumptionControls |->
                                      IF c = "time-range-select" THEN "7d" ELSE "all"],
                ev |-> <<"none", "none">>,
                issued |-> 0,
                burst |-> 0]

FlightInit ==
    flightState = [reqSeq |-> 0, inflight |-> {}, arrivals |-> <<>>, shownReq |-> 0,
                   lastUrl |-> ""]

\* showBuildingsView() up to its first await: the URL is built from the
\* controls as they are now (primed) and the request is issued
IssueBuildingsRequest ==
    /\ reqSeq < MaxViewRequests
    /\ flightState' = [flightState EXCEPT
                          !.reqSeq = reqSeq + 1,
                          !.inflight = inflight \cup {reqSeq + 1},
                          !.lastUrl = BuildingsUrl(DensityParam', TypeParam')]

\* an input or change event of #map-density carrying value v; continuing:
\* the event follows the previous slider event without a pause (a drag, a
\* held arrow key), so both belong to one burst
SliderEvent(event, v, continuing) ==
    /\ MapControlsPresent
    /\ continuing => ctlEv[1] = "map-density"
    \* change fires only for a value not yet committed
    /\ event = "change" => (v # density \/ ctlEv = <<"map-density", "input">>)
    /\ ctlState' = [ctlState EXCEPT
                       !.density = v,
                       !.ev = <<"map-density", event>>,
                       !.issued = SliderRequests(event),
                       !.burst = (IF continuing THEN burstRequests ELSE 0)
                                 + SliderRequests(event)]
    /\ UNCHANGED <<retryVars, envVars, coreVars, fetchVars, panelVars, chatVars>>
    /\ IF ctlIssued' > 0
       THEN IssueBuildingsRequest
       ELSE UNCHANGED flightVars

SliderInput(v, continuing) == SliderEvent("input", v, continuing)
SliderChange(v, continuing) == SliderEvent("change", v, continuing)

\* change event of #map-type-filter: updateMapTypeFilter -> showBuildingsView
TypeFilterChange(t) ==
    /\ MapControlsPresent
    /\ t # typeFilter
    /\ ctlState' = [ctlState EXCEPT
                       !.typeFilter = t,
                       !.ev = <<"map-type-filter", "change">>,
                       !.issued = 1]
    /\ UNCHANGED <<retryVars, envVars, coreVars, fetchVars, panelVars, chatVars>>
    /\ IssueBuildingsRequest

\* change event of a consumption dropdown: updateConsumptionCharts()
ConsumptionChange(c, v) ==
    /\ ConsumptionControlsPresent
    /\ v # consumptionSel[c]
    /\ ctlState' = [ctlState EXCEPT
                       !.consumptionSel[c] = v,
                       !.ev = <<c, "change">>,
                       !.issued = 1]
    /\ flightState' = [flightState EXCEPT
                          !.lastUrl = ConsumptionUrl(consumptionSel'["time-range-select"],
                                                     consumptionSel'["building-type-select"])]
    /\ UNCHANGED <<retryVars, envVars, coreVars, fetchVars, panelVars, chatVars>>

\* loadMapData() -> showBuildingsView(), called with the controls untouched
\* (after a data load, from the buildings tab timeout)
CallShowBuildingsView ==
    /\ map # Null
    /\ ctlState' = [ctlState EXCEPT !.ev = <<"loadMapData", "call">>, !.issued = 1]
    /\ UNCHANGED <<retryVars, envVars, coreVars, fetchVars, panelVars, chatVars>>
    /\ IssueBuildingsRequest

\* the response of buildings request q arrives: the rest of showBuildingsView
\* runs, and on a success envelope renderBuildingsOnMap(result.map_data);
\* hasList: map_data.markers is there, markers: its length
ShowBuildingsResponse(q, resp, hasList, markers) ==
    /\ q \in inflight
    /\ LET rendered == RendersUnchecked(resp) /\ map # Null /\ hasList
       IN  /\ flightState' = [flightState EXCEPT
                                 !.inflight = inflight \ {q},
                                 !.arrivals = Append(arrivals, <<q, rendered>>),
                                 !.shownReq = IF rendered THEN q ELSE @]
           /\ fetchState' = [view |-> IF rendered
                                      THEN ViewAfter("showBuildingsView", resp)
                                      ELSE view,
                             ev |-> <<"showBuildingsView", resp.status, resp.body>>,
                             rejected |-> FALSE]
           /\ IF rendered
              THEN /\ renderSeq' = renderSeq + 1
                   /\ lastAdded' = {[kind |-> "circle", call |-> renderSeq', idx |-> i] :
                                    i \in 1..markers}
                   /\ mapLayers' = {l \in mapLayers : ~BuildingsClears(l)} \cup lastAdded'
              ELSE UNCHANGED mapVars
    /\ UNCHANGED <<retryVars, envVars, pageVars, stateVars, domVars, procVars, histVars, regVars, ctlVars>>
    /\ UNCHANGED <<panelVars, chatVars>>

----------------------------------------------------------------------------
(* Specifications *)

MapInit ==
    /\ mapLayers = {}
    /\ renderSeq = 0
    /\ lastAdded = {}

----------------------------------------------------------------------------
(* Settings import: DashboardData.importSettings / applySettings *)

\* the values of applySettings' mappings table
SettingKeys == {"language", "animations", "sounds", "chartResolution", "maxPoints",
                "autoRefresh", "ollamaUrl", "defaultModel", "ollamaTimeout",
                "cacheDuration", "exportFolder"}

\* the mapped controls of type checkbox
CheckboxKeys == {"animations", "sounds", "autoRefresh"}

FileKeys == SettingKeys \cup {"theme"}

\* the radios input[name="theme"] of the settings markup
ThemeRadios == {"dark", "light"}

\* values a key of the file holds: a JSON string (one that also names a
\* theme) and the JSON literal null
JsonValues == {"light", "null"}

\* the controls as loadSettingsContent's markup creates them
DefaultControls ==
    [k \in SettingKeys |->
        CASE k = "language" -> "fr"
          [] k = "animations" -> "checked"
          [] k = "sounds" -> "unchecked"
          [] k = "chartResolution" -> "high"
          [] k = "maxPoints" -> "10000"
          [] k = "autoRefresh" -> "unchecked"
          [] k = "ollamaUrl" -> "http://localhost:11434"
          [] k = "defaultModel" -> "mistral:latest"
          [] k = "ollamaTimeout" -> "120"
          [] k = "cacheDuration" -> "60"
          [] k = "exportFolder" -> "exports"]

\* the settings controls are in the document
SettingsControlsPresent == markup["settings"] = "module"

NoKeys == [k \in {} |-> "null"]

SettingsObjects ==
    UNION {[K -> JsonValues] : K \in {K \in SUBSET FileKeys : Cardinality(K) <= MaxKeys}}

\* what the user's file holds: text that is no JSON, the JSON text null, or
\* the JSON text of an object
SettingsFiles ==
    {[text |-> "invalid", obj |-> NoKeys], [text |-> "null", obj |-> NoKeys]}
        \cup {[text |-> "object", obj |-> o] : o \in SettingsObjects}

\* mutant: the text is never rejected
ParseThrows_Never(file) == FALSE

\* JSON.parse(e.target.result) throws a SyntaxError
ParseThrows(file) == file.text = "invalid"

\* applySettings(null) throws a TypeError at settings.theme
ApplyThrows(file) == file.text = "null"

\* null and false are falsy (the strings used here are not empty)
JsonTruthy(v) == v \notin {"null", "false"}

\* element.checked = v / element.value = v
Assigned(k, v) ==
    IF k \in CheckboxKeys
    THEN (IF JsonTruthy(v) THEN "checked" ELSE "unchecked")
    ELSE (IF v = "null" THEN "" ELSE v)

\* if (settings.theme) setAttribute('data-theme', settings.theme)
ThemeApplies(o) == "theme" \in DOMAIN o /\ JsonTruthy(o["theme"])

ThemeAfter(o) == IF ThemeApplies(o) THEN o["theme"] ELSE dataTheme

\* if (themeRadio) themeRadio.checked = true
RadioAfter(o) ==
    IF ThemeApplies(o) /\ SettingsControlsPresent /\ o["theme"] \in ThemeRadios
    THEN o["theme"]
    ELSE themeRadio

\* if (element && settings[settingKey] !== undefined)
KeyApplies(k, o) == SettingsControlsPresent /\ k \in DOMAIN o

\* mutant: a key the file lacks blanks its control
ControlsAfter_Blanking(o) ==
    [k \in SettingKeys |->
        IF KeyApplies(k, o) THEN Assigned(k, o[k]) ELSE ""]

ControlsAfter(o) ==
    [k \in SettingKeys |->
        IF KeyApplies(k, o) THEN Assigned(k, o[k]) ELSE settingsControls[k]]

SettingsInit ==
    settingsState = [controls |-> DefaultControls,
                     dataTheme |-> "dark",
                     themeRadio |-> "dark",
                     imports |-> 0,
                     lastImport |-> [file |-> [text |-> "none", obj |-> NoKeys],
                                     toasts |-> <<>>],
                     edits |-> 0,
                     exported |-> NoKeys,
                     lastOp |-> "none",
                     storedTheme |-> "none",
                     toggledFrom |-> "none",
                     themeToast |-> "none"]

\* DashboardData.applySettings(settings), settings an object: the page's
\* settings state once it has run
ApplySettings(o) ==
    [settingsState EXCEPT
       !.dataTheme = ThemeAfter(o),
       !.themeRadio = RadioAfter(o),
       !.controls = ControlsAfter(o)]

\* reader.onload of importSettings for a file the user picked: whatever the
\* try block throws is caught and ends in the error toast; Dashboard.showToast
\* finds its container (v1.0, whose init() starts with a toast) or creates it
\* (v1.1)
ImportSettings(file) ==
    /\ imports < MaxImports
    /\ settingsState' =
          IF ParseThrows(file) \/ ApplyThrows(file)
          THEN [settingsState EXCEPT
                  !.imports = imports + 1,
                  !.lastImport = [file |-> file, toasts |-> <<"error">>],
                  !.lastOp = "import"]
          ELSE [ApplySettings(file.obj) EXCEPT
                  !.imports = imports + 1,
                  !.lastImport = [file |-> file, toasts |-> <<"success">>],
                  !.lastOp = "import"]
    /\ UNCHANGED <<retryVars, envVars, coreVars, fetchVars, ctlVars, flightVars, chatVars, mountVars, formatVars, chartVars, utilVars>>

\* what the user may put into a control: a checkbox is checked or not, any
\* other control holds its default, a value of the user's, or nothing
ControlValues(k) ==
    IF k \in CheckboxKeys
    THEN {"checked", "unchecked"}
    ELSE {DefaultControls[k], "custom", ""}

\* the user changes the control of key k to v
EditControl(k, v) ==
    /\ SettingsControlsPresent
    /\ settingsState.edits < MaxEdits
    /\ v # settingsControls[k]
    /\ settingsState' = [settingsState EXCEPT
                            !.controls[k] = v, !.edits = @ + 1, !.lastOp = "edit"]
    /\ UNCHANGED <<retryVars, envVars, coreVars, fetchVars, ctlVars, flightVars, chatVars, mountVars, formatVars, chartVars, utilVars>>

\* the literal to the right of || in exportSettings
ExportDefault(k) ==
    CASE k = "language" -> "fr"
      [] k = "animations" -> "true"
      [] k = "sounds" -> "false"
      [] k = "chartResolution" -> "high"
      [] k = "maxPoints" -> "10000"
      [] k = "autoRefresh" -> "false"
      [] k = "ollamaUrl" -> "http://localhost:11434"
      [] k = "defaultModel" -> "mistral:latest"
      [] k = "ollamaTimeout" -> "120"
      [] k = "cacheDuration" -> "60"
      [] k = "exportFolder" -> "exports"

\* document.getElementById(id)?.checked || <default>  /  ?.value || <default>:
\* an unchecked box and an empty value are falsy and give way to the default
ExportedValue(k) ==
    IF k \in CheckboxKeys
    THEN (IF SettingsControlsPresent /\ settingsControls[k] = "checked"
          THEN "true" ELSE ExportDefault(k))
    ELSE (IF SettingsControlsPresent /\ settingsControls[k] # ""
          THEN settingsControls[k] ELSE ExportDefault(k))

\* the settings object of exportSettings (its timestamp is no setting)
ExportedSettings ==
    [k \in FileKeys |-> IF k = "theme" THEN dataTheme ELSE ExportedValue(k)]

\* DashboardData.exportSettings()
ExportSettings ==
    /\ "data" \in inited
    /\ settingsState' = [settingsState EXCEPT !.exported = ExportedSettings, !.lastOp = "export"]
    /\ UNCHANGED <<retryVars, envVars, coreVars, fetchVars, ctlVars, flightVars, chatVars, mountVars, formatVars, chartVars, utilVars>>

\* DashboardData.applySettings(settings) with the object exported last
ApplyExported ==
    /\ settingsState.lastOp = "export"
    /\ settingsState' = [ApplySettings(settingsState.exported) EXCEPT !.lastOp = "apply"]
    /\ UNCHANGED <<retryVars, envVars, coreVars, fetchVars, ctlVars, flightVars, chatVars, mountVars, formatVars, chartVars, utilVars>>

\* localStorage.getItem('dashboard-theme') || 'dark': the theme a page load
\* restores from what is stored ("none": the key is not set)
SavedTheme(stored) == IF stored = "none" THEN "dark" ELSE stored

\* Dashboard.initializeTheme() (both versions of the core): reads the stored
\* theme and sets the attribute; it stores nothing
InitializeTheme ==
    /\ settingsState' = [settingsState EXCEPT
                            !.dataTheme = SavedTheme(settingsState.storedTheme),
                            !.lastOp = "initTheme"]
    /\ UNCHANGED <<retryVars, envVars, coreVars, fetchVars, ctlVars, flightVars, chatVars, mountVars, formatVars, chartVars, utilVars>>

\* const newTheme = currentTheme === 'dark' ? 'light' : 'dark'
Toggled(theme) == IF theme = "dark" THEN "light" ELSE "dark"

\* Dashboard.toggleTheme() (both versions of the core, Ctrl+T and the button
\* of the fallback settings): attribute and storage are written first, the
\* icon and the info toast follow
ToggleTheme ==
    /\ settingsState' = [settingsState EXCEPT
                            !.dataTheme = Toggled(dataTheme),
                            !.storedTheme = Toggled(dataTheme),
                            !.toggledFrom = dataTheme,
                            !.themeToast = "info",
                            !.lastOp = "toggle"]
    /\ UNCHANGED <<retryVars, envVars, coreVars, fetchVars, ctlVars, flightVars, chatVars, mountVars, formatVars, chartVars, utilVars>>

\* DashboardUI.applyTheme(theme), the change handler setupThemeHandlers binds
\* to each input[name="theme"] the document holds when the module starts
ApplyTheme(theme) ==
    /\ "ui" \in inited
    /\ theme \in ThemeRadios
    /\ settingsState' = [settingsState EXCEPT
                            !.dataTheme = theme,
                            !.storedTheme = theme,
                            !.themeRadio = theme,
                            !.themeToast = "info",
                            !.lastOp = "applyTheme"]
    /\ UNCHANGED <<retryVars, envVars, coreVars, fetchVars, ctlVars, flightVars, chatVars, mountVars, formatVars, chartVars, utilVars>>

----------------------------------------------------------------------------
(* Render and status routines whose mount point may be missing *)

\* DashboardCharts.renderPlotlyChart, Dashboard.animateMetricValue (v1.0),
\* DashboardMaps.updateMapStatsDisplay / updateTopZones,
\* DashboardChat.checkOllamaStatus, Dashboard.showToast,
\* Dashboard.updateConnectionStatus
MountRoutines == {"renderPlotlyChart", "animateMetricValue", "updateMapStatsDisplay",
                  "updateTopZones", "checkOllamaStatus", "showToast",
                  "updateConnectionStatus"}

\* the routines the core itself defines, per version
CoreRoutines(c) ==
    IF c = "v1.0"
    THEN {"animateMetricValue", "showToast", "updateConnectionStatus"}
    ELSE {"showToast", "updateConnectionStatus"}

ModuleMountRoutines == {"renderPlotlyChart", "updateMapStatsDisplay", "updateTopZones",
                        "checkOllamaStatus"}

\* the routines that test the element they looked up before using it:
\* if (!element) return; / if (indicator && statusText) { ... }
GuardsMount(r) == r \in {"renderPlotlyChart", "animateMetricValue", "updateConnectionStatus"}

\* how a call of routine r ends when its mount point is missing:
\*   "returned"  nothing was done and nothing raised
\*   "done"      the routine did its work (v1.1 showToast creates the container)
\*   "threw"     a TypeError left the routine (null.textContent, null.innerHTML,
\*               null.appendChild)
\*   "rejected"  the promise of the async routine is rejected: the catch block
\*               of checkOllamaStatus dereferences the missing element again
OutcomeWhenAbsent(r) ==
    CASE GuardsMount(r) -> "returned"
      [] r \in {"updateMapStatsDisplay", "updateTopZones"} -> "threw"
      [] r = "checkOllamaStatus" -> "rejected"
      [] r = "showToast" -> IF core = "v1.0" THEN "threw" ELSE "done"

Outcome(r, present) == IF present THEN "done" ELSE OutcomeWhenAbsent(r)

NotCalled == [mount |-> "none", result |-> "none"]

MountInit == domOutcome = [r \in MountRoutines |-> NotCalled]

\* a call of routine r; present: what its document lookup finds
RoutineRuns(r, present) ==
    /\ r \in ModuleMountRoutines \cup CoreRoutines(core)
    /\ domOutcome' = [domOutcome EXCEPT
                        ![r] = [mount |-> IF present THEN "present" ELSE "absent",
                                result |-> Outcome(r, present)]]
    /\ UNCHANGED <<retryVars, envVars, coreVars, fetchVars, ctlVars, flightVars, chatVars, settingsVars, formatVars, chartVars, utilVars>>

----------------------------------------------------------------------------
(* Number formatting: formatUtils.number, Dashboard.formatNumber *)

Thousand == 1000
Million == 1000000
Billion == 1000000000

FormatImpls == {"formatUtils.number", "formatNumber v1.0", "formatNumber v1.1"}

\* the decimal digits of tenths / 10 with one fractional digit
Fixed1(tenths) == ToString(tenths \div 10) \o "." \o ToString(tenths % 10)

\* (num / unit).toFixed(1) for a non-negative integer num, as a number of
\* tenths. A quotient exactly halfway between two tenths is rounded by the
\* binary double nearest to it, which lies above it for some quotients and
\* below it for others: tieUp is the side it lies on.
ToFixed1(num, unit, tieUp) ==
    IF unit = 1 THEN Fixed1(10 * num)
    ELSE LET step == unit \div 10
             q == num \div step
             r == num % step
         IN  Fixed1(IF 2 * r > step \/ (2 * r = step /\ tieUp) THEN q + 1 ELSE q)

\* dashboard.js formatUtils.number(num), decimals = 1
FormatUtilsNumber(num, tieUp) ==
    IF num >= Million THEN ToFixed1(num, Million, tieUp) \o "M"
    ELSE IF num >= Thousand THEN ToFixed1(num, Thousand, tieUp) \o "k"
    ELSE ToFixed1(num, 1, tieUp)

\* mutant: the boundaries are tested with > instead of >=
FormatNumberV10_Strict(num, tieUp) ==
    IF num > Million THEN ToFixed1(num, Million, tieUp) \o "M"
    ELSE IF num > Thousand THEN ToFixed1(num, Thousand, tieUp) \o "k"
    ELSE ToFixed1(num, 1, tieUp)

\* 1.0.0 Dashboard.formatNumber(num): absNum = Math.abs(num) is num here
FormatNumberV10(num, tieUp) ==
    LET absNum == IF num < 0 THEN 0 - num ELSE num IN
    IF absNum >= Million THEN ToFixed1(num, Million, tieUp) \o "M"
    ELSE IF absNum >= Thousand THEN ToFixed1(num, Thousand, tieUp) \o "k"
    ELSE ToFixed1(num, 1, tieUp)

\* 1.1.0 Dashboard.formatNumber(num), decimals = 1
FormatNumberV11(num, tieUp) ==
    IF num >= Billion THEN ToFixed1(num, Billion, tieUp) \o "B"
    ELSE IF num >= Million THEN ToFixed1(num, Million, tieUp) \o "M"
    ELSE IF num >= Thousand THEN ToFixed1(num, Thousand, tieUp) \o "k"
    ELSE ToFixed1(num, 1, tieUp)

FormatBy(impl, num, tieUp) ==
    CASE impl = "formatUtils.number" -> FormatUtilsNumber(num, tieUp)
      [] impl = "formatNumber v1.0" -> FormatNumberV10(num, tieUp)
      [] impl = "formatNumber v1.1" -> FormatNumberV11(num, tieUp)

\* numbers around the unit boundaries
NearBoundaries ==
    UNION {{b - k - 1, b + k} : b \in {Thousand, Million, Billion}, k \in 0..MaxOffset}
        \cup 0..MaxOffset

\* numbers inside the ranges, with quotients on and off a rounding tie
FormatSamples == {1049, 1050, 1051, 1250, 1500, 12345, 999949, 999950,
                  1250000, 2500000, 2549999, 999950000}

FormatInputs == NearBoundaries \cup FormatSamples

FormatInit ==
    formatState = [arg |-> 0 - 1, out |-> [i \in FormatImpls |-> ""]]

\* the three implementations are applied to num
FormatNumber(num, tieUp) ==
    /\ formatState' = [arg |-> num, out |-> [i \in FormatImpls |-> FormatBy(i, num, tieUp)]]
    /\ UNCHANGED <<retryVars, envVars, coreVars, fetchVars, ctlVars, flightVars, chatVars, settingsVars, mountVars, chartVars, utilVars>>

----------------------------------------------------------------------------
(* Chart registry: DashboardCharts.renderPlotlyChart *)

\* element ids renderCharts / renderConsumptionCharts plot into
ChartIds == {"consumption-chart", "building-types-chart", "detailed-consumption-chart"}

\* the tab whose markup holds the chart element
ChartTab(id) == IF id = "detailed-consumption-chart" THEN "consumption" ELSE "overview"

\* document.getElementById(elementId) finds the element
ChartElementPresent(id) == markup[ChartTab(id)] = "module"

\* mutant: the entry is added next to the one already there
ChartsAfterRender_Adds(id, data) == stateCharts \cup {[id |-> id, data |-> data]}

\* Dashboard.state.charts[elementId] = {data, layout, config}
ChartsAfterRender(id, data) ==
    {c \in stateCharts : c.id # id} \cup {[id |-> id, data |-> data]}

ChartInit ==
    chartState = [charts |-> {},
                  plotted |-> [id \in ChartIds |-> 0],
                  lastPlot |-> [id |-> "none", mount |-> "none", result |-> "none"]]

\* renderPlotlyChart(id, chartData), called by the render routines of the
\* charts module; plotOk: Plotly.newPlot returns (it throws when the library
\* is not loaded, and the assignment after it is not reached)
RenderPlotlyChart(id, data, plotOk) ==
    /\ "charts" \in inited
    /\ plotted[id] < MaxPlots
    /\ chartState' =
          IF ~ChartElementPresent(id)
          THEN [chartState EXCEPT
                  !.lastPlot = [id |-> id, mount |-> "absent", result |-> "returned"]]
          ELSE IF ~plotOk
          THEN [chartState EXCEPT
                  !.lastPlot = [id |-> id, mount |-> "present", result |-> "threw"]]
          ELSE [lastPlot |-> [id |-> id, mount |-> "present", result |-> "plotted"],
                plotted |-> [plotted EXCEPT ![id] = @ + 1],
                charts |-> ChartsAfterRender(id, data)]
    /\ UNCHANGED <<retryVars, envVars, coreVars, fetchVars, ctlVars, flightVars, chatVars, settingsVars, mountVars, formatVars, utilVars>>

----------------------------------------------------------------------------
(* Toasts: Dashboard.showToast and its removal timeout *)

\* 1.0.0 gives its toast element no id
NoId == 0 - 1

\* the elements of the document carrying id
WithId(dom, id) == {e \in dom : e.id = id}

\* document.getElementById(id): the first element in document order with
\* that id (toasts are appended, so the one created first)
GetElementById(dom, id) == CHOOSE e \in WithId(dom, id) : \A f \in WithId(dom, id) : e.n <= f.n

\* 'toast-' + Date.now() (1.1.0)
ToastId(at) == IF core = "v1.1" THEN at ELSE NoId

\* the element the timeout callback of a call holds: the created element
\* itself (1.0.0), what getElementById(toastId) returned (1.1.0)
TimerTarget(dom, elem) == IF core = "v1.1" THEN GetElementById(dom, elem.id).n ELSE elem.n

\* 1.0.0: toastContainer.appendChild(toast) on the null querySelector result
ShowToastThrows == core = "v1.0" /\ ~toastContainer

ToastInit ==
    toastState = [now |-> 0,
                  ticks |-> 0,
                  \* the 1.0.0 page carries the container its init() needs,
                  \* 1.1.0 creates it with the first toast
                  container |-> (core = "v1.0"),
                  dom |-> {},
                  timers |-> {},
                  made |-> 0,
                  lastFire |-> [call |-> 0, removed |-> FALSE, threw |-> FALSE]]

\* a call of showToast(message, type)
ShowToast ==
    /\ toastsMade < MaxToasts
    /\ LET elem == [n |-> toastsMade + 1, at |-> toastNow, id |-> ToastId(toastNow)]
           dom == toastDom \cup {elem}
       IN  toastState' =
             IF ShowToastThrows
             THEN [toastState EXCEPT !.made = @ + 1]
             ELSE [toastState EXCEPT
                     !.made = @ + 1,
                     !.container = TRUE,
                     !.dom = dom,
                     !.timers = @ \cup {[call |-> elem.n,
                                          target |-> TimerTarget(dom, elem),
                                          due |-> toastNow + ToastDelay]}]
    /\ UNCHANGED <<retryVars, envVars, coreVars, fetchVars, ctlVars, flightVars, chatVars>>
    /\ UNCHANGED <<settingsVars, mountVars, formatVars, chartVars, runVars, debounceVars>>

\* a millisecond passes without a timeout becoming due
ToastTick ==
    /\ toastTicks < MaxTicks
    /\ \A t \in toastTimers : toastNow < t.due
    /\ toastState' = [toastState EXCEPT !.now = @ + 1, !.ticks = @ + 1]
    /\ UNCHANGED <<retryVars, envVars, coreVars, fetchVars, ctlVars, flightVars, chatVars>>
    /\ UNCHANGED <<settingsVars, mountVars, formatVars, chartVars, runVars, debounceVars>>

\* the element is taken out of the document before its timeout (the toast
\* was dismissed and disposed of)
ToastDismissed(e) ==
    /\ e \in toastDom
    /\ toastState' = [toastState EXCEPT !.dom = @ \ {e}]
    /\ UNCHANGED <<retryVars, envVars, coreVars, fetchVars, ctlVars, flightVars, chatVars>>
    /\ UNCHANGED <<settingsVars, mountVars, formatVars, chartVars, runVars, debounceVars>>

\* the timeout of call t.call fires, the earliest due first:
\* if (toast.parentNode) toast.remove()  /  if (toastElement) toastElement.remove()
\* Element.remove() on an element without a parent does nothing
ToastTimerFires(t) ==
    /\ t \in toastTimers
    /\ \A u \in toastTimers : t.due <= u.due
    /\ toastState' = [toastState EXCEPT
                         !.now = IF @ < t.due THEN t.due ELSE @,
                         !.timers = @ \ {t},
                         !.dom = {e \in @ : e.n # t.target},
                         !.lastFire = [call |-> t.call,
                                       removed |-> \E e \in toastDom : e.n = t.target,
                                       threw |-> FALSE]]
    /\ UNCHANGED <<retryVars, envVars, coreVars, fetchVars, ctlVars, flightVars, chatVars>>
    /\ UNCHANGED <<settingsVars, mountVars, formatVars, chartVars, runVars, debounceVars>>

----------------------------------------------------------------------------
(* debounce(func, wait): performanceUtils.debounce and Dashboard.debounce *)

\* the three implementations
DebounceImpls == {"performanceUtils", "v1.0", "v1.1"}

\* the delays handed to debounce
Waits == 0..MaxWait

CallIds == 1..MaxCalls

\* no debounced function exists yet; timeout is undefined (0)
DebounceInit ==
    debounceState = [impl |-> "none", wait |-> 0, now |-> 0, timeout |-> 0,
                     timers |-> {}, calls |-> <<>>, invoked |-> <<>>]

\* debounce(func, wait) of implementation impl returns the debounced function
Debounce(impl, wait) ==
    /\ debounceState.impl = "none"
    /\ debounceState' = [debounceState EXCEPT !.impl = impl, !.wait = wait]
    /\ UNCHANGED <<retryVars, envVars, coreVars, fetchVars, ctlVars, flightVars, chatVars>>
    /\ UNCHANGED <<settingsVars, mountVars, formatVars, chartVars, toastVars, runVars>>

\* mutant: the pending timeout is left running
AfterClearTimeout_Kept(pending, id) == pending

\* clearTimeout(id): the timeout with that id, if it is still pending, is
\* cancelled
AfterClearTimeout(pending, id) == {t \in pending : t.id # id}

\* a call of the debounced function; its arguments are those of the n-th call:
\* clearTimeout(timeout); timeout = setTimeout(later, wait)
DebouncedCall ==
    /\ debounceState.impl # "none"
    /\ Len(debounceState.calls) < MaxCalls
    /\ LET n == Len(debounceState.calls) + 1
       IN  debounceState' =
             [debounceState EXCEPT
                !.timers = AfterClearTimeout(@, debounceState.timeout)
                              \cup {[id |-> n, args |-> n,
                                     due |-> debounceState.now + debounceState.wait]},
                !.timeout = n,
                !.calls = Append(@, debounceState.now)]
    /\ UNCHANGED <<retryVars, envVars, coreVars, fetchVars, ctlVars, flightVars, chatVars>>
    /\ UNCHANGED <<settingsVars, mountVars, formatVars, chartVars, toastVars, runVars>>

\* a millisecond passes; a timeout that is due runs when the event loop gets
\* to it, not at once
DebounceTick ==
    /\ debounceState.now < MaxClock
    /\ debounceState' = [debounceState EXCEPT !.now = @ + 1]
    /\ UNCHANGED <<retryVars, envVars, coreVars, fetchVars, ctlVars, flightVars, chatVars>>
    /\ UNCHANGED <<settingsVars, mountVars, formatVars, chartVars, toastVars, runVars>>

\* const later = () => { clearTimeout(timeout); func(...args); } of
\* performanceUtils and the 1.0.0 core; 1.1.0 passes
\* () => func.apply(this, args) to setTimeout
LaterClears(impl) == impl \in {"performanceUtils", "v1.0"}

\* the callback of timeout t runs, no earlier than wait ms after it was set:
\* func is invoked with the arguments of the call that set it
DebounceTimerFires(t) ==
    /\ t \in debounceState.timers
    /\ LET at == IF debounceState.now < t.due THEN t.due ELSE debounceState.now
           left == debounceState.timers \ {t}
       IN  debounceState' =
             [debounceState EXCEPT
                !.now = at,
                !.timers = IF LaterClears(debounceState.impl)
                           THEN AfterClearTimeout(left, debounceState.timeout)
                           ELSE left,
                !.invoked = Append(@, [at |-> at, args |-> t.args])]
    /\ UNCHANGED <<retryVars, envVars, coreVars, fetchVars, ctlVars, flightVars, chatVars>>
    /\ UNCHANGED <<settingsVars, mountVars, formatVars, chartVars, toastVars, runVars>>

----------------------------------------------------------------------------
(* 1.1.0 loadRealData(), one await at a time *)

\* mutant: the summary is requested whatever the load step answered
StepAfterLoad_Eager(load) == "summary"

\* if (!loadResponse.ok) throw; await json(); if (!loadResult.success) throw;
\* await this.loadDataSummary()
StepAfterLoad(load) == IF LoadThrows(load) THEN "done" ELSE "summary"

\* how the load step ended, as the log of the call records it
LoadOutcome(load) == IF LoadThrows(load) THEN "load:failed" ELSE "load:ok"

\* what a call has done so far is kept as a log
RunInit == loadRuns = [r \in RunIds |-> [pc |-> "idle", log |-> <<>>]]

\* mutant: the catch block takes the flag back
LoadedAfterCatch_Reset == FALSE

\* the catch block of loadRealData does not write state.dataLoaded
LoadedAfterCatch == dataLoaded

\* the catch block of loadRealData
RunCatches(r, entry) ==
    /\ loadRuns' = [loadRuns EXCEPT ![r] = [pc |-> "done",
                                             log |-> @.log \o <<entry, "fallback">>]]
    /\ dataLoaded' = LoadedAfterCatch

\* loadRealData() is called and runs up to await fetch('/api/data/load')
LoadRealDataStart(r) ==
    /\ core = "v1.1"
    /\ loadRuns[r].pc = "idle"
    /\ loadRuns' = [loadRuns EXCEPT ![r] = [pc |-> "load", log |-> <<"load:request">>]]
    /\ UNCHANGED <<retryVars, envVars, coreVars, fetchVars, ctlVars, flightVars, chatVars>>
    /\ UNCHANGED <<settingsVars, mountVars, formatVars, chartVars, toastVars, debounceVars>>

\* the load request settles with load
LoadRealDataLoaded(r, load) ==
    /\ loadRuns[r].pc = "load"
    /\ fetchState' = [view |-> IF StepAfterLoad(load) = "done" THEN ViewAfterLoadFailure ELSE view,
                       ev |-> <<"loadRealData", load.status, load.body>>,
                       rejected |-> FALSE]
    /\ IF StepAfterLoad(load) = "done"
       THEN RunCatches(r, LoadOutcome(load))
       ELSE /\ loadRuns' = [loadRuns EXCEPT ![r] = [pc |-> "summary",
                                                    log |-> @.log \o <<LoadOutcome(load),
                                                                        "summary:request">>]]
            /\ UNCHANGED dataLoaded
    /\ UNCHANGED <<retryVars, envVars, pageVars, currentTab, isConnected, lastUpdate, map>>
    /\ UNCHANGED <<domVars, procVars, histVars, regVars, mapVars, ctlVars, flightVars, chatVars>>
    /\ UNCHANGED <<settingsVars, mountVars, formatVars, chartVars, toastVars, debounceVars>>

\* loadDataSummary() settles with summary (what it throws it catches
\* itself); loadRealCharts() runs up to await fetch('/api/charts/overview')
LoadRealDataSummarised(r, summary) ==
    /\ loadRuns[r].pc = "summary"
    /\ fetchState' = [view |-> ViewAfter("loadDataSummary", summary),
                       ev |-> <<"loadDataSummary", summary.status, summary.body>>,
                       rejected |-> FALSE]
    /\ loadRuns' = [loadRuns EXCEPT ![r] = [pc |-> "charts",
                                             log |-> @.log \o <<"summary:done", "charts:request">>]]
    /\ UNCHANGED <<retryVars, envVars, coreVars, ctlVars, flightVars, chatVars>>
    /\ UNCHANGED <<settingsVars, mountVars, formatVars, chartVars, toastVars, debounceVars>>

\* loadRealCharts() settles with charts; drawn: Plotly drew what it was
\* given (createFallbackCharts() in the catch block of loadRealCharts is
\* not guarded, what it throws reaches the catch block of loadRealData)
LoadRealDataCharted(r, charts, drawn) ==
    /\ loadRuns[r].pc = "charts"
    /\ fetchState' = [view |-> IF drawn
                                THEN [view EXCEPT !["overviewCharts"] = ChartsAfterRealCharts(charts)]
                                ELSE ViewAfterLoadFailure,
                       ev |-> <<"loadRealCharts", charts.status, charts.body>>,
                       rejected |-> FALSE]
    /\ IF drawn
       THEN /\ loadRuns' = [loadRuns EXCEPT ![r] = [pc |-> "done",
                                                    log |-> @.log \o <<"charts:done", "dataLoaded">>]]
            /\ dataLoaded' = TRUE
       ELSE RunCatches(r, "charts:threw")
    /\ UNCHANGED <<retryVars, envVars, pageVars, currentTab, isConnected, lastUpdate, map>>
    /\ UNCHANGED <<domVars, procVars, histVars, regVars, mapVars, ctlVars, flightVars, chatVars>>
    /\ UNCHANGED <<settingsVars, mountVars, formatVars, chartVars, toastVars, debounceVars>>

UtilInit == ToastInit /\ RunInit /\ DebounceInit

PanelInit == SettingsInit /\ MountInit /\ FormatInit /\ ChartInit /\ UtilInit

ChatInit ==
    chatState = [thinking |-> 0, appended |-> <<>>]

\* no channel event yet, no analysis requested yet
EnvInit ==
    /\ channelUp = FALSE
    /\ analyses = [a \in AnalysisIds |-> "idle"]
    /\ windowState = [isConnected |-> FALSE, dataLoaded |-> FALSE,
                      currentTab |-> "overview", lastUpdate |-> "null", alerts |-> 0]

AuxInit == FetchInit /\ ControlInit /\ FlightInit /\ PanelInit /\ ChatInit /\ EnvInit

Init == RetryInit /\ CoreInit /\ MapInit /\ AuxInit

CoreNext ==
    \/ InitCharts
    \/ InitMaps
    \/ InitChat
    \/ InitData
    \/ InitUI
    \/ \E t \in TabIds : ShownTab(t)
    \/ BuildingsTimerFires
    \/ PeriodClick
    \/ SocketConnect
    \/ SocketDisconnect
    \/ AnalysisStarted
    \/ AnalysisComplete
    \/ AnalysisError
    \/ \E c \in SoleLoad : LoadDataStart(c)
    \/ \E c \in SoleLoad, success \in BOOLEAN : LoadDataResponse(c, success)
    \/ \E c \in SoleLoad : LoadDataSummaryDone(c)
    \/ \E c \in SoleLoad : LoadDataChartsDone(c)
    \/ \E c \in SoleLoad : LoadDataMapsDone(c)

\* the page under either core: module scripts, user events, socket events
Spec == Init /\ [][CoreNext]_vars

RegistryNext ==
    \/ \E name \in ApiNames, handle \in Handles : RegisterModule(name, handle)
    \/ \E name \in ApiNames : GetModule(name)

\* registerModule / getModule called in any order with any name
RegistrySpec == Init /\ [][RegistryNext]_vars

MapNext ==
    \/ InitMaps
    \/ \E hasList \in BOOLEAN, markers \in PointCounts : RenderBuildingsOnMap(hasList, markers)
    \/ \E hasList \in BOOLEAN, points \in PointCounts : RenderConsumptionHeatmap(hasList, points)

\* the maps module and the render calls its response handlers make
MapSpec == Init /\ [][MapNext]_vars

\* apiClient.request calls of dashboard.js
RetrySpec == Init /\ [][RetryNext]_vars

\* every awaited fetch settles and every backoff timer fires; both steps
\* change the call's own state, so the fairness subscript is retryVars
FairRetrySpec ==
    /\ Init
    /\ [][RetryNext]_vars
    /\ \A r \in ReqIds : WF_retryVars(\E o \in Outcomes : FetchComplete(r, o))
    /\ \A r \in ReqIds : WF_retryVars(BackoffElapsed(r))

FetchNext ==
    \/ \E routine \in FetchRoutines, resp \in Responses : FetchRoutineSettles(routine, resp)
    \/ \E load \in Responses : LoadRealDataSettles(load)

\* the data-fetching routines, called in any order with any response
FetchSpec == Init /\ [][FetchNext]_vars

ControlNext ==
    \/ InitMaps
    \/ InitCharts
    \/ \E v \in DensityValues, continuing \in BOOLEAN : SliderInput(v, continuing)
    \/ \E v \in DensityValues, continuing \in BOOLEAN : SliderChange(v, continuing)
    \/ \E t \in TypeValues : TypeFilterChange(t)
    \/ \E c \in ConsumptionControls : \E v \in ConsumptionValues(c) : ConsumptionChange(c, v)
    \/ CallShowBuildingsView
    \/ ShownTab("buildings")

\* the user works the fetch-parameter controls
ControlSpec == Init /\ [][ControlNext]_vars

FlightNext ==
    \/ InitMaps
    \/ \E t \in TypeValues : TypeFilterChange(t)
    \/ CallShowBuildingsView
    \/ \E q \in 1..MaxViewRequests, resp \in Responses, hasList \in BOOLEAN, markers \in PointCounts :
          ShowBuildingsResponse(q, resp, hasList, markers)

\* buildings requests and their responses, arriving in any order
FlightSpec == Init /\ [][FlightNext]_vars

MountNext == \E r \in MountRoutines, present \in BOOLEAN : RoutineRuns(r, present)

\* the render and status routines run against documents with and without
\* their mount points
MountSpec == Init /\ [][MountNext]_vars

FormatNext == \E num \in FormatInputs, tieUp \in BOOLEAN : FormatNumber(num, tieUp)

\* numbers are formatted by the three implementations
FormatSpec == Init /\ [][FormatNext]_vars

ChartNext ==
    \/ InitCharts
    \/ ShownTab("overview")
    \/ ShownTab("consumption")
    \/ \E id \in ChartIds, data \in Payloads, plotOk \in BOOLEAN : RenderPlotlyChart(id, data, plotOk)

\* charts are rendered and re-rendered while tabs are activated
ChartSpec == Init /\ [][ChartNext]_vars

SettingsNext ==
    \/ InitData
    \/ \E file \in SettingsFiles : ImportSettings(file)

\* the user imports settings files
SettingsSpec == Init /\ [][SettingsNext]_vars

ToastNext ==
    \/ ShowToast
    \/ ToastTick
    \/ \E e \in toastDom : ToastDismissed(e)
    \/ \E t \in toastTimers : ToastTimerFires(t)

ToastSpec == Init /\ [][ToastNext]_vars

\* every timeout that was set fires
FairToastSpec ==
    /\ Init
    /\ [][ToastNext]_vars
    /\ WF_toastVars(\E t \in toastTimers : ToastTimerFires(t))

LoadRunNext ==
    \/ \E r \in RunIds : LoadRealDataStart(r)
    \/ \E r \in RunIds, load \in Responses : LoadRealDataLoaded(r, load)
    \/ \E r \in RunIds, summary \in Responses : LoadRealDataSummarised(r, summary)
    \/ \E r \in RunIds, charts \in Responses, drawn \in BOOLEAN : LoadRealDataCharted(r, charts, drawn)

LoadRunSpec == Init /\ [][LoadRunNext]_vars

ChannelNext ==
    \/ InitChat
    \/ ShownTab("analysis")
    \/ SocketConnect
    \/ SocketDisconnect
    \/ \E online \in BOOLEAN : BrowserConnectivity(online)
    \/ \E blank \in BOOLEAN : SendMessage(blank)

ChannelSpec == Init /\ [][ChannelNext]_vars

LoadNext ==
    \/ InitCharts
    \/ InitMaps
    \/ \E c \in LoadIds : LoadDataStart(c)
    \/ \E c \in LoadIds, success \in BOOLEAN : LoadDataResponse(c, success)
    \/ \E c \in LoadIds : LoadDataSummaryDone(c)
    \/ \E c \in LoadIds : LoadDataChartsDone(c)
    \/ \E c \in LoadIds : LoadDataMapsDone(c)

\* the 1.0.0 load button and Ctrl+R, with calls that overlap
LoadSpec == Init /\ [][LoadNext]_vars

ReloadNext ==
    \/ InitCharts
    \/ InitMaps
    \/ \E c \in LoadIds : LoadDataStart(c)
    \/ \E c \in LoadIds, success \in BOOLEAN : LoadDataResponse(c, success)
    \/ \E c \in LoadIds : LoadDataSummaryDone(c)
    \/ \E c \in LoadIds : LoadDataChartsDone(c)
    \/ \E c \in LoadIds : LoadDataMapsDone(c)
    \/ \E r \in RunIds : LoadRealDataStart(r)
    \/ \E r \in RunIds, load \in Responses : LoadRealDataLoaded(r, load)
    \/ \E r \in RunIds, summary \in Responses : LoadRealDataSummarised(r, summary)
    \/ \E r \in RunIds, charts \in Responses, drawn \in BOOLEAN : LoadRealDataCharted(r, charts, drawn)

\* every way the page loads its data, under either core
ReloadSpec == Init /\ [][ReloadNext]_vars

RoundTripNext ==
    \/ InitData
    \/ \E k \in SettingKeys : \E v \in ControlValues(k) : EditControl(k, v)
    \/ ExportSettings
    \/ ApplyExported

RoundTripSpec == Init /\ [][RoundTripNext]_vars

\* the user toggles and picks themes, the page initialises its theme, and
\* settings files are imported
ThemeNext ==
    \/ InitData
    \/ InitUI
    \/ InitializeTheme
    \/ ToggleTheme
    \/ \E theme \in ThemeRadios : ApplyTheme(theme)
    \/ \E file \in SettingsFiles : ImportSettings(file)

ThemeSpec == Init /\ [][ThemeNext]_vars

AnalysisKinds == {"analysis_started", "analysis_complete", "analysis_error"}

\* the chat module starts, its tab is shown, and analyses run on the server
AnalysisNext ==
    \/ InitChat
    \/ ShownTab("analysis")
    \/ \E a \in AnalysisIds : \E kind \in AnalysisKinds : AnalysisRaises(a, kind)

AnalysisSpec == Init /\ [][AnalysisNext]_vars

DebounceNext ==
    \/ \E impl \in DebounceImpls : \E wait \in Waits : Debounce(impl, wait)
    \/ DebouncedCall
    \/ DebounceTick
    \/ \E t \in debounceState.timers : DebounceTimerFires(t)

DebounceSpec == Init /\ [][DebounceNext]_vars

\* the callback of a timeout that was set and not cleared runs
FairDebounceSpec ==
    /\ Init
    /\ [][DebounceNext]_vars
    /\ WF_debounceVars(\E t \in debounceState.timers : DebounceTimerFires(t))

\* concurrent apiClient.request calls while the page's listeners run
SharedNext ==
    \/ \E r \in ReqIds : Request(r)
    \/ \E r \in ReqIds, o \in Outcomes : FetchComplete(r, o)
    \/ \E r \in ReqIds : BackoffElapsed(r)
    \/ \E online \in BOOLEAN : WindowConnectivity(online)
    \/ AlertExpires

SharedSpec == Init /\ [][SharedNext]_vars

----------------------------------------------------------------------------
(* Claims *)

Terminated(r) == reqPc[r] \in {"resolved", "rejected"}

\* C1: a request whose first k attempts fail (0 <= k <= maxRetries) and whose
\* next attempt succeeds resolves with the parsed body, and the shared retry
\* counter is 0 at the moment it resolves.
C1_SuccessResolvesAndResets ==
    /\ [](\A r \in ReqIds :
            /\ reqLast[r] = "ok" => reqPc[r] = "resolved" /\ reqResult[r] = "data"
            /\ reqPc[r] = "resolved" => reqLast[r] = "ok" /\ reqRetryCount[r] <= maxRetries
            /\ reqPc[r] = "waiting" => reqRetryCount[r] <= maxRetries)
    /\ [][\A r \in ReqIds :
            (reqPc[r] = "fetching" /\ reqLast'[r] = "ok" /\ reqPc'[r] # "fetching")
                => (reqPc'[r] = "resolved" /\ reqResult'[r] = "data" /\ dsRetryCount' = 0)]_vars

\* a request that failed twice and succeeded on its third attempt
C1_Witness ==
    \E r \in ReqIds :
        /\ reqPc[r] = "resolved"
        /\ reqAttempts[r] = 3
        /\ reqRetryCount[r] = 2
        /\ dsRetryCount = 0

\* C2: when every attempt fails the helper makes exactly maxRetries + 1
\* attempts and then rejects once; it makes no further attempt, waits no
\* backoff delay after the last failure, and every started call settles.
C2_ExhaustionRejects ==
    /\ [](\A r \in ReqIds :
            /\ reqAttempts[r] <= maxRetries + 1
            /\ reqPc[r] = "rejected" =>
                  /\ reqAttempts[r] = maxRetries + 1
                  /\ reqRetryCount[r] = maxRetries + 1
                  /\ Len(reqWaits[r]) = maxRetries
                  /\ reqResult[r] = "error"
            /\ reqRetryCount[r] > maxRetries => reqPc[r] = "rejected")
    /\ [][\A r \in ReqIds : Terminated(r) => UNCHANGED <<reqPc[r], reqResult[r], reqAttempts[r]>>]_vars
    /\ \A r \in ReqIds : (reqPc[r] \in {"fetching", "waiting"}) ~> Terminated(r)

\* a call rejected after its fourth failed attempt
C2_Witness ==
    \E r \in ReqIds :
        /\ reqPc[r] = "rejected"
        /\ reqAttempts[r] = 4
        /\ reqLast[r] # "ok"

\* the waits the code inserts for maxRetries = 3
ExpectedWaits == <<2000, 4000, 8000>>

\* C3: the wait after the n-th failed attempt of a request is 2^n * 1000 ms:
\* 2000, 4000, 8000 for maxRetries = 3, each double the one before.
C3_BackoffDoubles ==
    \A r \in ReqIds :
        /\ Len(reqWaits[r]) = (IF reqRetryCount[r] > maxRetries THEN maxRetries ELSE reqRetryCount[r])
        /\ reqWaits[r] = SubSeq(ExpectedWaits, 1, Len(reqWaits[r]))
        /\ \A i \in 2..Len(reqWaits[r]) : reqWaits[r][i] = 2 * reqWaits[r][i - 1]

\* a call that has waited all three delays
C3_Witness == \E r \in ReqIds : reqWaits[r] = <<2000, 4000, 8000>>

IsFetch(c) == c = <<"net", "fetch">>
IsRender(c) == c = <<"dom", "render">>

ContentLoadOf(e) == IF e[1] = "tab" THEN {e[2]} ELSE {}

\* C5: dataset.loaded is monotonic: once a tab's flag is set no operation
\* clears it, and every later content-load call for that tab leaves the
\* container's markup as it is.
C5_LoadedFlagMonotonic ==
    [][\A t \in TabIds :
        loaded[t] =>
            /\ loaded'[t]
            /\ t \in ContentLoadOf(ev') => (markup'[t] = markup[t] /\ \A c \in calls' : ~IsRender(c))]_vars

\* a tab whose flag is set is activated again: its static markup is left
\* alone and nothing is rendered
C5_Witness ==
    /\ loaded["buildings"]
    /\ markup["buildings"] = "static"
    /\ ev = <<"tab", "buildings">>
    /\ calls = {}

\* the tabs that hold a live widget, and whether the widget is there
LiveWidgetTabs == {"buildings", "consumption"}
WidgetExists(t) ==
    IF t = "buildings" THEN map # Null ELSE markup["consumption"] = "module"

IsResize(c) == c \in {<<"Leaflet", "invalidateSize">>, <<"Plotly", "resize">>}

\* C6 as stated: every activation of a tab that holds a live widget issues
\* the widget's size re-validation call (at once, or through the timeout the
\* handler has just set).
C6_Original ==
    (ev[1] = "tab" /\ ev[2] \in LiveWidgetTabs /\ WidgetExists(ev[2])) =>
        \/ \E c \in calls : IsResize(c)
        \/ (ev[2] = "buildings" /\ timers > 0)

\* C7: currentTab is 'overview' at page load, is always one of the six tab
\* ids, equals the tab named by each tab-activation event, and is changed by
\* no other operation.
C7_CurrentTabFollowsActivation ==
    /\ currentTab = "overview"
    /\ [](currentTab \in TabIds)
    /\ [][/\ ev'[1] = "tab" => currentTab' = ev'[2]
          /\ ev'[1] # "tab" => currentTab' = currentTab]_vars

\* a tab activation followed by another operation that left currentTab alone
C7_Witness ==
    /\ currentTab = "settings"
    /\ ev[1] = "loadData"
    /\ dataLoaded

\* the modules an event of the 1.0.0 core dispatches into
DispatchTargets(e) ==
    IF core # "v1.0" THEN {}
    ELSE CASE e = <<"tab", "buildings">> -> {"maps"}
           [] e = <<"tab", "consumption">> -> {"charts"}
           [] e = <<"tab", "analysis">> -> {"chat"}
           [] e = <<"period", "">> -> {"charts"}
           [] e[1] \in {"analysis_started", "analysis_complete", "analysis_error"} -> {"chat"}
           [] e = <<"loadData", "summary">> -> {"charts", "maps"}
           [] e = <<"loadData", "charts">> -> {"maps"}
           [] OTHER -> {}

CallsInto(m, cs) == {c \in cs : c[1] = m}

\* C8: a dispatch into a module that has not registered is a no-op: it
\* invokes no method of the module, raises no exception, and changes no
\* shared state other than currentTab.
C8_UnregisteredDispatchIsNoOp ==
    [][\A m \in DispatchTargets(ev') :
        ~Truthy(modules[m]) =>
            /\ CallsInto(m, calls') = {}
            /\ ~threw'
            /\ (\A n \in DispatchTargets(ev') : ~Truthy(modules[n])) =>
                  /\ calls' = {}
                  /\ UNCHANGED <<isConnected, dataLoaded, lastUpdate, map, modules, loaded, markup, timers>>]_vars

\* an analysis_complete event arrived before the chat module registered
C8_Witness ==
    /\ core = "v1.0"
    /\ ev = <<"analysis_complete", "">>
    /\ modules["chat"] = Null
    /\ calls = {}
    /\ ~threw

\* C9 as stated: getModule(name) returns the handle of the most recent
\* registerModule(name, ...) call, and an absent value (null / undefined) for
\* a name that was never registered.
C9_Original ==
    LET name == lookup[1]
        value == lookup[2]
    IN  ev[1] = "getModule" =>
            IF lastReg[name] # "none"
            THEN value = lastReg[name]
            ELSE value \in {Null, Undefined}

\* C10 as stated: after any sequence of render calls the overlay layers on
\* the map are exactly those added by the most recent render call.
C10_Original == renderSeq > 0 => Overlays(mapLayers) = lastAdded

\* the failures the routines must absorb: a rejected fetch, an error status,
\* an envelope with success = false
FetchFailed(e) == e[2] \in {"rejected", "http_error"} \/ e[3] = "failure"

\* C11 as stated: when a data-fetching routine's fetch rejects, its status
\* is an error or its envelope has success = false, the routine does not
\* reject and the content rendered before is left exactly as it was.
C11_Original ==
    [][(fetchEv' # fetchEv \/ view' # view) =>
          (FetchFailed(fetchEv') => (view' = view /\ ~fetchRejected'))]_vars

DropdownControls == {"map-type-filter"} \cup ConsumptionControls

\* C12 as stated: each user change of a fetch-parameter control triggers
\* exactly one re-fetch; dropdown changes issue their request at once, and a
\* burst of continuous slider events, being debounced, yields one request.
C12_Original ==
    [][/\ (ctlEv'[1] \in DropdownControls
             /\ (typeFilter' # typeFilter \/ consumptionSel' # consumptionSel))
          => ctlIssued' = 1
       /\ ctlEv'[1] = "map-density" => burstRequests' <= 1]_vars

\* a step that issues a buildings request
BuildingsRequestIssued == reqSeq' = reqSeq + 1

\* C13: showBuildingsView builds its URL from the control values current
\* at call time, density defaulting to 100 and type to 'all' when the
\* control is absent; after the slider goes from 100 to 50 with the type
\* filter untouched, the next request has density=50 and the type selected
\* before.
C13_UrlFromCurrentControls ==
    [][BuildingsRequestIssued =>
         /\ lastUrl' = (IF markup'["buildings"] = "module"
                        THEN "/api/map/buildings?density=" \o density' \o "&type=" \o typeFilter'
                        ELSE "/api/map/buildings?density=100&type=all")
         /\ (density = "100" /\ density' = "50" /\ typeFilter' = typeFilter)
               => lastUrl' = "/api/map/buildings?density=50&type=" \o typeFilter]_vars

\* commercial was selected, then the slider was moved to 50
C13_Witness ==
    /\ ctlEv = <<"map-density", "change">>
    /\ typeFilter = "commercial"
    /\ lastUrl = "/api/map/buildings?density=50&type=commercial"

CircleLayers == {l \in mapLayers : l.kind = "circle"}

\* the request of the latest response that was rendered (0: none yet)
RECURSIVE LastRendered(_)
LastRendered(as) ==
    IF as = <<>> THEN 0
    ELSE IF as[Len(as)][2] THEN as[Len(as)][1]
    ELSE LastRendered(SubSeq(as, 1, Len(as) - 1))

\* C19: whatever the order in which the responses of the buildings requests
\* in flight arrive, the map shows the markers of one single response, never
\* a mixture: the response that was rendered last, which may belong to the
\* earlier-issued, superseded request.
C19_LastArrivalWins ==
    /\ \A l1 \in CircleLayers, l2 \in CircleLayers : l1.call = l2.call
    /\ renderSeq > 0 => (CircleLayers = lastAdded /\ \A l \in CircleLayers : l.call = renderSeq)
    /\ shownReq = LastRendered(arrivals)
    /\ (Len(arrivals) > 0 /\ arrivals[Len(arrivals)][2]) => shownReq = arrivals[Len(arrivals)][1]

\* request 2 was answered before request 1; the markers of request 1, the
\* superseded one, are what the map shows
C19_Witness ==
    /\ inflight = {}
    /\ arrivals = <<<<2, TRUE>>, <<1, TRUE>>>>
    /\ shownReq = 1
    /\ CircleLayers # {}
    /\ \A l \in CircleLayers : l.call = 2

\* a step in which a settings file was read
FileImported == imports' = imports + 1

C15_ParseFailureIsToasted ==
    [][(FileImported /\ lastImport'.file.text = "invalid") =>
         /\ lastImport'.toasts = <<"error">>
         /\ settingsControls' = settingsControls
         /\ dataTheme' = dataTheme
         /\ themeRadio' = themeRadio]_vars

\* an unparsable file was read while the settings controls are in the document
C15_Witness ==
    /\ SettingsControlsPresent
    /\ lastImport.file.text = "invalid"
    /\ lastImport.toasts = <<"error">>

\* C16 as stated: every render or status routine that finds its mount point
\* absent returns silently: no exception, no rejected promise.
C16_Original ==
    \A r \in MountRoutines :
        domOutcome[r].mount = "absent" => domOutcome[r].result \notin {"threw", "rejected"}

\* tenths / 10 is the quotient num / unit rounded to one decimal
RoundsTo(tenths, num, unit) ==
    LET step == unit \div 10
        diff == num - step * tenths
    IN  2 * diff <= step /\ 2 * diff >= 0 - step

\* out is num / unit with one decimal, followed by suffix
OneDecimal(out, num, unit, suffix) ==
    \E tenths \in {num \div (unit \div 10), num \div (unit \div 10) + 1} :
        RoundsTo(tenths, num, unit) /\ out = Fixed1(tenths) \o suffix

\* C17: the unit boundaries are exactly 1,000 and 1,000,000: a non-negative
\* integer below 1000 is printed with one decimal and no suffix, from 1000
\* below 1,000,000 as thousands with one decimal and 'k', from 1,000,000
\* below 1,000,000,000 as millions with one decimal and 'M'; 999 gives
\* "999.0", 1500 "1.5k", 2500000 "2.5M"; in all three implementations.
C17_UnitBoundaries ==
    \A i \in FormatImpls :
        /\ (0 <= fmtArg /\ fmtArg < Thousand) => fmtOut[i] = ToString(fmtArg) \o ".0"
        /\ (Thousand <= fmtArg /\ fmtArg < Million) => OneDecimal(fmtOut[i], fmtArg, Thousand, "k")
        /\ (Million <= fmtArg /\ fmtArg < Billion) => OneDecimal(fmtOut[i], fmtArg, Million, "M")
        /\ fmtArg = 999 => fmtOut[i] = "999.0"
        /\ fmtArg = 1500 => fmtOut[i] = "1.5k"
        /\ fmtArg = 2500000 => fmtOut[i] = "2.5M"
        /\ fmtArg = Thousand => fmtOut[i] = "1.0k"
        /\ fmtArg = Million => fmtOut[i] = "1.0M"

\* the first number of the 'k' range was formatted
C17_Witness ==
    /\ fmtArg = Thousand
    /\ \A i \in FormatImpls : fmtOut[i] = "1.0k"

EntriesOf(id) == {c \in stateCharts : c.id = id}

\* C18: Dashboard.state.charts has an entry for an element id only if a
\* chart was rendered into that element at least once; a renderPlotlyChart
\* call whose target element is absent adds no entry, and a second render for
\* the same id replaces the entry rather than adding another.
C18_RegistryRecordsRenderedCharts ==
    /\ [](\A id \in ChartIds :
            /\ EntriesOf(id) # {} => plotted[id] >= 1
            /\ Cardinality(EntriesOf(id)) <= 1)
    /\ [][/\ lastPlot'.mount = "absent" => stateCharts' = stateCharts
          /\ \A id \in ChartIds :
                plotted'[id] = plotted[id] + 1 =>
                    \E data \in Payloads : EntriesOf(id)' = {[id |-> id, data |-> data]}]_vars

\* consumption-chart was rendered twice and has one entry, that of the
\* second render
C18_Witness ==
    /\ plotted["consumption-chart"] = 2
    /\ EntriesOf("consumption-chart") = {[id |-> "consumption-chart", data |-> 2]}
    /\ lastPlot.result = "plotted"

ToastShown(n) == \E e \in toastDom : e.n = n

\* C21 (as stated): every toast that is shown is removed from the document
\* in the end, by the timeout set 5 seconds after it was shown, and a timeout
\* whose toast is already gone removes nothing and raises no error.
C21_Original ==
    /\ \A n \in 1..MaxToasts : ToastShown(n) ~> ~ToastShown(n)
    /\ [](~toastLastFire.threw)
    /\ [][\A e \in toastDom :
            (e \notin toastDom' /\ toastLastFire' # toastLastFire)
               => toastNow' = e.at + ToastDelay]_vars

\* the positions of entry in a log
Positions(log, entry) == {i \in 1..Len(log) : log[i] = entry}

\* every occurrence of later in the log has an occurrence of earlier before it
Precedes(log, earlier, later) ==
    \A j \in Positions(log, later) : \E i \in Positions(log, earlier) : i < j

\* C22: within each loadRealData call the summary request is issued only
\* after the load response arrived with success, the charts request only
\* after the summary step has finished, dataLoaded is set only after the
\* charts step has finished, and a failed load step is followed by neither
\* request; dataLoaded changes in no step but the end of a charts step.
C22_StepsRunInOrder ==
    /\ [](\A r \in RunIds :
            LET log == loadRuns[r].log
            IN  /\ Precedes(log, "load:request", "load:ok")
                /\ Precedes(log, "load:ok", "summary:request")
                /\ Precedes(log, "summary:done", "charts:request")
                /\ Precedes(log, "charts:done", "dataLoaded")
                /\ Positions(log, "load:failed") # {} =>
                      /\ Positions(log, "summary:request") = {}
                      /\ Positions(log, "charts:request") = {})
    /\ [][dataLoaded' # dataLoaded =>
            \E r \in RunIds : /\ loadRuns[r].pc = "charts"
                               /\ loadRuns'[r].pc = "done"
                               /\ Positions(loadRuns'[r].log, "dataLoaded") # {}]_vars

\* one call failed at its load step while another ran through to the end
C22_Witness ==
    \E r, q \in RunIds :
        /\ loadRuns[r].log = <<"load:request", "load:failed", "fallback">>
        /\ loadRuns[q].log = <<"load:request", "load:ok", "summary:request", "summary:done",
                                "charts:request", "charts:done", "dataLoaded">>
        /\ dataLoaded

\* the step is a sendMessage call with a question in the input
MessageSent == ev' = <<"sendMessage", "question">> /\ ~threw'

\* C23 (as stated): a sendMessage call emits request_analysis exactly when
\* the socket's last channel event was connect, and otherwise emits
\* nothing and appends the 'Connexion WebSocket non disponible' message.
C23_Original ==
    [][MessageSent =>
         IF channelUp
         THEN <<"socket", "request_analysis">> \in calls'
         ELSE /\ <<"socket", "request_analysis">> \notin calls'
              /\ chatAppended' = <<UserMessage, UnavailableMessage>>]_vars

\* a loadData call is in flight
LoadInFlight == \E c \in LoadIds : ldPc[c] # "idle"

\* C24 (as stated): the load button is disabled while a loadData call is in
\* flight, and once every started call has completed it is enabled and
\* shows the content it had before the first call.
C24_Original ==
    IF LoadInFlight
    THEN loadBtn.disabled
    ELSE ~loadBtn.disabled /\ loadBtn.content = "original"

\* the step ends a load whose /api/data/load response carried success = true
\* (1.0.0: the response itself; 1.1.0: the charts step of such a call)
LoadSucceeded ==
    \/ \E c \in LoadIds : ldPc[c] = "load" /\ ldPc'[c] = "summary"
    \/ \E r \in RunIds : /\ loadRuns[r].pc = "charts"
                           /\ loadRuns'[r].pc = "done"
                           /\ Positions(loadRuns[r].log, "load:ok") # {}

\* the step ends a load in failure
LoadFailed ==
    \/ \E c \in LoadIds : ldPc[c] = "load" /\ ldPc'[c] = "idle"
    \/ \E r \in RunIds : /\ loadRuns[r].pc # "done"
                           /\ loadRuns'[r].pc = "done"
                           /\ Positions(loadRuns'[r].log, "fallback") # {}

\* C25: dataLoaded is false at page load, becomes true only in a step that
\* ends a load whose response carried success = true, is never set back to
\* false, and a load that fails leaves it as it was.
C25_DataLoadedOnlyRises ==
    /\ ~dataLoaded
    /\ [][/\ dataLoaded => dataLoaded'
          /\ dataLoaded' # dataLoaded => LoadSucceeded
          /\ LoadFailed => dataLoaded' = dataLoaded]_vars

\* the data is loaded and the load handled last has failed
C25_Witness ==
    /\ dataLoaded
    /\ \/ fetchEv = <<"loadRealData", "rejected", "none">>
          /\ \E r \in RunIds : loadRuns[r].log = <<"load:request", "load:failed", "fallback">>
       \/ ev = <<"loadData", "response">> /\ \A c \in LoadIds : ldPc[c] = "idle"

\* the exported value of key k says what its control holds
Mirrors(o, k) ==
    IF k \in CheckboxKeys
    THEN o[k] = (IF settingsControls[k] = "checked" THEN "true" ELSE "false")
    ELSE o[k] = settingsControls[k]

\* C26 (as stated): the object built by exportSettings mirrors the value of
\* every settings control, an unchecked checkbox included, and applying that
\* object leaves every control at the value it had when exported.
C26_Original ==
    [][/\ settingsState'.lastOp = "export" =>
             \A k \in SettingKeys : Mirrors(settingsState'.exported, k)
       /\ (settingsState.lastOp = "export" /\ settingsState'.lastOp = "apply") =>
             settingsControls' = settingsControls]_vars

\* C27: after any sequence of toggleTheme, applyTheme, initializeTheme and
\* applySettings calls the theme a reload restores from localStorage
\* ('dashboard-theme') is the document's data-theme attribute, and two
\* consecutive toggleTheme calls return to the theme they started from.
ThemeOps == {"toggle", "applyTheme", "initTheme", "import"}

C27_Original ==
    [][/\ settingsState'.lastOp \in ThemeOps =>
             SavedTheme(settingsState'.storedTheme) = dataTheme'
       /\ (settingsState.lastOp = "toggle" /\ ToggleTheme) =>
             dataTheme' = settingsState.toggledFrom]_vars

\* the second half of C27 on its own
C27_DoubleToggle ==
    [][(settingsState.lastOp = "toggle" /\ ToggleTheme) =>
             dataTheme' = settingsState.toggledFrom]_vars

\* C28: in every reachable state the chat transcript holds a thinking message
\* exactly when some analysis has raised analysis_started and has raised
\* neither analysis_complete nor analysis_error yet, also when analyses
\* overlap.
InProgress(a) == analyses[a] = "running"

C28_Original == (chatThinking > 0) <=> (\E a \in AnalysisIds : InProgress(a))

\* C29: func is never invoked earlier than wait ms after the most recent call
\* of the debounced function; a burst of calls, each less than wait ms after
\* the one before, results in exactly one invocation of func, made with the
\* arguments of the last call of the burst; and every burst is eventually
\* followed by that invocation; the three implementations agree.
Called(i) == i <= Len(debounceState.calls)

Invocations(i) == Cardinality({j \in DOMAIN debounceState.invoked : debounceState.invoked[j].args = i})

\* call i is the last call of its burst: the next call, if any, came wait ms
\* or more after it
EndsBurst(i) ==
    /\ Called(i)
    /\ Called(i + 1) => debounceState.calls[i + 1] - debounceState.calls[i] >= debounceState.wait

\* the burst call i ends is over: no call can join it any more
BurstOver(i) ==
    /\ EndsBurst(i)
    /\ Called(i + 1) \/ debounceState.now >= debounceState.calls[i] + debounceState.wait

\* func runs no earlier than wait ms after the most recent call
NeverEarly ==
    [][Len(debounceState'.invoked) > Len(debounceState.invoked) =>
          debounceState'.now >= debounceState.calls[Len(debounceState.calls)] + debounceState.wait]_vars

\* func gets the arguments of no call but the last one of a burst, and gets
\* them once at most
OncePerBurst ==
    \A i \in CallIds : Invocations(i) <= 1 /\ (Invocations(i) = 1 => EndsBurst(i))

C29_Original ==
    /\ NeverEarly
    /\ []OncePerBurst
    /\ \A i \in CallIds : BurstOver(i) ~> (Invocations(i) = 1)

\* C29 (amended): func is never invoked earlier than wait ms after the most
\* recent call; it is invoked at most once with the arguments of a call, and
\* only of a call that no other call followed within wait ms; every call is
\* eventually followed by an invocation with its own arguments or those of a
\* later call, and the last call of all by one with its own.
C29_DebounceInvokesLastCall ==
    /\ NeverEarly
    /\ []OncePerBurst
    /\ \A i \in CallIds : Called(i) ~> (\E j \in CallIds : j >= i /\ Invocations(j) = 1)
    /\ <>[](\A i \in CallIds : (Called(i) /\ ~Called(i + 1)) => Invocations(i) = 1)

\* a burst of two calls was answered by one invocation with the second
\* call's arguments
C29_Witness ==
    /\ debounceState.wait > 0
    /\ Called(2)
    /\ debounceState.calls[2] - debounceState.calls[1] < debounceState.wait
    /\ Invocations(1) = 0
    /\ Invocations(2) = 1

\* C30: however several in-flight apiClient.request calls interleave,
\* window.dashboardState.retryCount lies in 0..maxRetries+1 and equals the
\* number of failed attempts so far of the request whose attempt completed
\* most recently (0 if that attempt succeeded); a step of apiClient.request
\* changes no other field of the shared state and no element of the document.
AttemptCompletes(r) == reqPc[r] = "fetching" /\ reqPc'[r] # "fetching"

RequestStep == reqPc' # reqPc

C30_SharedCounterFollowsLastAttempt ==
    /\ [](dsRetryCount \in 0..(maxRetries + 1))
    /\ [][\A r \in ReqIds :
            AttemptCompletes(r) =>
                dsRetryCount' = (IF reqLast'[r] = "ok" THEN 0 ELSE reqAttempts[r])]_vars
    /\ [][(\A r \in ReqIds : ~AttemptCompletes(r)) => dsRetryCount' = dsRetryCount]_vars
    /\ [][RequestStep => UNCHANGED nonRetryVars]_vars

\* two calls in flight: one has failed twice, the other's first attempt
\* failed after that, and the page went online in between
C30_Witness ==
    \E r, q \in ReqIds :
        /\ r # q
        /\ reqRetryCount[r] = 2 /\ reqPc[r] = "waiting"
        /\ reqRetryCount[q] = 1 /\ reqPc[q] = "waiting"
        /\ dsRetryCount = 1
        /\ windowState.isConnected
        /\ windowState.alerts > 0

============================================================================
